---- MODULE Spec2Model ----
(***************************************************************************)
(* A model of three parts of the paladin node:                             *)
(*   - the domain context of the state manager (statemgr, part_007),       *)
(*   - the reliable message sender of a transport peer (transportmgr,      *)
(*     part_008),                                                          *)
(*   - the submission of transactions with idempotency keys (txmgr,        *)
(*     transaction_submission.go).                                         *)
(* Each part has its own next-state relation and specification over the    *)
(* variables it owns; the variables of the other parts stay as Init left    *)
(* them.                                                                   *)
(***************************************************************************)
EXTENDS Integers, Sequences, FiniteSets, TLC

(***************************************************************************)
(* Bounds of the model.                                                    *)
(***************************************************************************)
NumStates == 3
NumTxs == 2
MaxLocks == 2
MaxFlushCalls == 2
MaxNullifiers == 1
MaxMsgs == 2
ReliableMessagePageSize == 1
ReliableMessageResend == 2
PeerInactivityTimeout == 1
MaxSendQueue == 1
NumSubmits == 2
NumKeys == 2
MaxBatch == 2
MaxPeers == 2
MaxVersions == 3
PersistenceRetryTimeout == 1
NumCallers == 2
MaxTxIds == 4
MaxReceipts == 2
MaxCoins == 11
MaxLockCoins == 3

StateIds == 1..NumStates
TxIds == 1..NumTxs
NullifierIds == {1, 2}
\* uuid.UUID{} : the zero transaction id, which addStateLocks refuses
ZeroTx == 0
\* a nil *StateNullifier on a state
NoNullifier == 0
\* a nil query.Limit
NoLimit == 0
\* dc.id: the id of the one context of the model
dcId == "dc"

VARIABLES
    \* ---- domain context (part_007, type domainContext) ----
    unFlushed,       \* dc.unFlushed: NilOp or a write operation accepting appends
    flushing,        \* dc.flushing: 0 (nil) or the slot in flushCalls of its write operation
    flushCalls,      \* the doFlush goroutines that have not returned, and the sealed write
                     \* operation of each (kept while dc.flushing still points at it)
    creatingStates,  \* dc.creatingStates: by state id, whether it is in the map and its Nullifier
    txLocks,         \* dc.txLocks
    closed,          \* dc.closed
    dbStatus,        \* the durable states of this (domain, contract), by state id
    dbNullifiers,    \* the state ids that have a durable nullifier
    overlay,         \* history: the ids upserted since the last seal or Reset
    failedFlush,     \* history: "current" when a flush sealed since the last Reset has
                     \* failed, "abandoned" when only flushes sealed before it have
    ret,             \* the operation that ran last, and what it returned
    \* ---- state manager (part_007, type stateManager) and the callers of a context ----
    domainContexts,  \* ss.domainContexts: the ids of the contexts in the registry
    finder,          \* a caller inside FindAvailableStates or FindAvailableNullifiers:
                     \* its position and its locals
    \* ---- peer (part_008, type peer) ----
    reliableMsgs,            \* the reliable_messages rows for the peer, with their ack
    persistedMsgsAvailable,  \* p.persistedMsgsAvailable holds a notification
    sendQueue,               \* the number of messages in p.sendQueue
    sender,                  \* the sender goroutine: its position and its locals
    lastFullScan,            \* the time since p.lastFullScan
    lastDrainHWM,            \* p.lastDrainHWM: NoSeq (nil) or a sequence
    persistentMsgsDrained,   \* p.persistentMsgsDrained
    wire,                    \* what the last step put on the transport
    \* ---- transaction submission (txmgr/transaction_submission.go) ----
    transactionRows,         \* the committed rows of the transactions table
    submits,                 \* the callers of sendTransactionsNewDBTX
    \* ---- transport manager (part_008, type transportManager) ----
    peers,                   \* tm.peers[nodeName]: NoPeer or the peer object in the map
    peerObjs,                \* the peer objects made for the node, in order of creation
    activations,             \* by transport, ActivateNode successes less DeactivateNode calls
    callers,                 \* the goroutines inside getPeer and what they do with the peer
    transportCall,           \* the call the last step made on a transport plugin
    lastReceive,             \* the time since p.Stats.LastReceive, of the peer above
    \* ---- in-flight public transaction (publictxmgr, type inFlightTransactionState) ----
    versions,                \* iftxs.versions
    readyToExit,             \* what InMemoryTxStateManager.IsReadyToExit returns
    stageAction,             \* the stage action the last step triggered, and for which version
    \* ---- transaction submission in one database transaction (txmgr) ----
    transactionsTable,       \* the committed rows of the transactions table, with their type
    publicTxns,              \* the committed public transactions: the binding of each
    txCache,                 \* tm.txCache: the ids it holds
    nextTxID,                \* the next id uuid.New() gives
    lastSubmit,              \* the call that ran last: its transactions and its error
    \* ---- receipts (txmgr, FinalizeTransactions) ----
    receipts,                \* the rows of transaction_receipts
    lastFinalize,            \* the FinalizeTransactions call that ran last, and its error
    \* ---- zeto (part_005 and handler_transferLocked.go) ----
    coinStore,               \* the available coins of the sender, in the order of .created
    selection,               \* the prepareInputs call that ran last, and what it returned
    assembled,               \* the Assemble call that ran last, and what it returned
    \* ---- the callers of a domain context and dc.stateLock (part_007) ----
    stateLock,               \* dc.stateLock: 0 (free) or the caller that holds it
    dcCalls                  \* by caller: its position in its call, the call and its ctx

dcVars == <<unFlushed, flushing, flushCalls, creatingStates, txLocks,
            closed, dbStatus, dbNullifiers, overlay, failedFlush, ret>>
dcVars_noRet == <<unFlushed, flushing, flushCalls, creatingStates, txLocks,
                  closed, dbStatus, dbNullifiers, overlay, failedFlush>>

peerVars == <<reliableMsgs, persistedMsgsAvailable, sendQueue, sender, lastFullScan,
              lastDrainHWM, persistentMsgsDrained, wire>>
txVars == <<transactionRows, submits>>
ssVars == <<domainContexts, finder>>
tmVars == <<peers, peerObjs, activations, callers, transportCall>>
rxVars == <<lastReceive>>
ifVars == <<versions, readyToExit, stageAction>>
subVars == <<transactionsTable, publicTxns, txCache, nextTxID, lastSubmit>>
rcVars == <<receipts, lastFinalize>>
zetoVars == <<coinStore, selection, assembled>>
muVars == <<stateLock, dcCalls>>
vars == <<dcVars, ssVars, peerVars, txVars, tmVars, rxVars, ifVars, subVars, rcVars, zetoVars, muVars>>

(***************************************************************************)
(* Helpers on sequences and sets.                                          *)
(***************************************************************************)
Range(s) == {s[i] : i \in DOMAIN s}

RECURSIVE SetToSeq(_)
SetToSeq(S) ==
    IF S = {} THEN <<>>
    ELSE LET x == CHOOSE y \in S : \A z \in S : y <= z
         IN <<x>> \o SetToSeq(S \ {x})

(***************************************************************************)
(* States, schemas, labels and queries.  A state id is the hash of its     *)
(* data, so its schema and its label values are functions of the id.       *)
(***************************************************************************)
SchemaOf(s) == s % 2
LabelOf(s) == (s * 3) % 7

Schemas == {0, 1}
Queries == [schema : Schemas, minLabel : {0, 3}, limit : {NoLimit, 1, 2}]
NoQuery == [schema |-> 0, minLabel |-> 0, limit |-> NoLimit]

\* filters.EvalQuery on the label values of a state
EvalQuery(q, s) == LabelOf(s) >= q.minLabel

\* filters.SortValueSetInPlace / ORDER BY of the query's sort
LabelLess(a, b) == LabelOf(a) < LabelOf(b)
SortStates(list) == SortSeq(list, LabelLess)

ApplyLimit(list, limit) ==
    IF limit # NoLimit /\ Len(list) > limit THEN SubSeq(list, 1, limit) ELSE list

(***************************************************************************)
(* Locks.                                                                  *)
(***************************************************************************)
LockTypes == {"create", "read", "spend"}
Locks == [type : LockTypes, tx : TxIds \cup {ZeroTx}, state : StateIds]

NilOp == [nil |-> TRUE, states |-> <<>>, nullifiers |-> <<>>]
\* writer.newWriteOp
newWriteOp == [nil |-> FALSE, states |-> <<>>, nullifiers |-> <<>>]

Ret(op, err, states, q) == [op |-> op, err |-> err, states |-> states, q |-> q]

(***************************************************************************)
(* The domain context: checks and queries.                                 *)
(***************************************************************************)

\* <-dc.flushing.flushed is readable: the flush has completed
Flushed(op) == flushCalls[op].status # "queued"

\* the mutant of checkResetError that does not peek at the flush
checkResetErrorNoPeek == IF closed THEN "closed" ELSE "none"

\* checkResetInitUnFlushed: the error it returns ("none" for nil)
checkResetError ==
    IF closed THEN "closed"
    ELSE IF flushing # 0 /\ Flushed(flushing) /\ flushCalls[flushing].status = "failed"
         THEN "mustReset"
         ELSE "none"

\* checkResetInitUnFlushed: dc.unFlushed after a nil return
initUnFlushed == IF unFlushed.nil THEN newWriteOp ELSE unFlushed

\* getUnFlushedStates: the ids with a spend lock in this context
spendingStates == {txLocks[i].state : i \in {j \in DOMAIN txLocks : txLocks[j].type = "spend"}}

\* getUnFlushedStates: the nullifiers of the unflushed and of the flushing operation
unFlushedNullifiers ==
    unFlushed.nullifiers \o (IF flushing # 0 THEN flushCalls[flushing].nullifiers ELSE <<>>)

\* stateManager.findStates with StateStatusAvailable and an exclusion list: the
\* durable available states of the schema that match, sorted, up to the limit
findStates(q, excluded) ==
    ApplyLimit(
        SortStates(SetToSeq({s \in StateIds :
            /\ dbStatus[s] = "available"
            /\ SchemaOf(s) = q.schema
            /\ EvalQuery(q, s)
            /\ s \notin excluded})),
        q.limit)

\* stateManager.findAvailableNullifiers: as findStates, for states that have a
\* nullifier, durable or among the given unflushed ones
findAvailableNullifiers(q, statesWithNullifiers, excluded) ==
    ApplyLimit(
        SortStates(SetToSeq({s \in StateIds :
            /\ dbStatus[s] = "available"
            /\ s \in dbNullifiers \cup statesWithNullifiers
            /\ SchemaOf(s) = q.schema
            /\ EvalQuery(q, s)
            /\ s \notin excluded})),
        q.limit)

\* mergeInMemoryMatches without the truncation to the limit
mergeInMemoryMatchesNoLimit(states, extras, q) ==
    LET persistedStateIDs == Range(states)
        notPersisted(s) == s \notin persistedStateIDs
    IN SortStates(states \o SelectSeq(extras, notPersisted))

mergeInMemoryMatches(states, extras, q) ==
    LET persistedStateIDs == Range(states)
        notPersisted(s) == s \notin persistedStateIDs
        fullList == states \o SelectSeq(extras, notPersisted)
    IN ApplyLimit(SortStates(fullList), q.limit)

\* the mutant of applyLocks that attaches every lock of the context to each state
applyLocksOfAnyState(states) ==
    [i \in DOMAIN states |-> [id |-> states[i], locks |-> txLocks]]

\* applyLocks: each returned state with the locks of the context on its id
applyLocks(states) ==
    LET locksOf(s) == LET on(l) == l.state = s IN SelectSeq(txLocks, on)
    IN [i \in DOMAIN states |-> [id |-> states[i], locks |-> locksOf(states[i])]]

\* mergeUnFlushedApplyLocks, after its checkResetInitUnFlushed
mergeUnFlushedApplyLocks(dbStates, q, requireNullifier) ==
    LET spent(s) == \E i \in DOMAIN txLocks :
                        txLocks[i].state = s /\ txLocks[i].type = "spend"
        matches == {s \in StateIds :
                        /\ creatingStates[s].present
                        /\ SchemaOf(s) = q.schema
                        /\ ~spent(s)
                        /\ ~(requireNullifier /\ creatingStates[s].nullifier = NoNullifier)
                        /\ EvalQuery(q, s)
                        /\ s \notin Range(dbStates)}
        retStates == IF matches # {}
                     THEN mergeInMemoryMatches(dbStates, SetToSeq(matches), q)
                     ELSE dbStates
    IN applyLocks(retStates)

\* FindAvailableStates: the states it returns when no error is returned
findAvailableStatesResult(q) ==
    mergeUnFlushedApplyLocks(findStates(q, spendingStates), q, FALSE)

\* FindAvailableNullifiers: the states it returns when no error is returned
findAvailableNullifiersResult(q) ==
    LET statesWithNullifiers == {n.state : n \in Range(unFlushedNullifiers)}
    IN mergeUnFlushedApplyLocks(
           findAvailableNullifiers(q, statesWithNullifiers, spendingStates), q, TRUE)

(***************************************************************************)
(* The domain context: mutations.  Every operation records in ret what it  *)
(* returned.                                                               *)
(***************************************************************************)
NotCreating == [present |-> FALSE, nullifier |-> NoNullifier]
NewCreating == [present |-> TRUE, nullifier |-> NoNullifier]

\* the inputs of UpsertStates: createdBy is <<>> (nil) or <<tx>>
Upserts == [id : StateIds, createdBy : {<<>>} \cup {<<t>> : t \in TxIds \cup {ZeroTx}}]
Nullifiers == [id : NullifierIds, state : StateIds]

\* addStateLocks: the lock list it leaves and the error it returns; it stops at
\* the first lock it refuses, keeping the locks appended before it
RECURSIVE addStateLocks(_, _, _)
addStateLocks(cur, creating, locks) ==
    IF locks = <<>> THEN [txLocks |-> cur, err |-> "none"]
    ELSE LET l == Head(locks)
         IN IF l.tx = ZeroTx
            THEN [txLocks |-> cur, err |-> "lockNoTransaction"]
            ELSE IF l.type = "create" /\ ~creating[l.state].present
            THEN [txLocks |-> cur, err |-> "lockCreateNotInContext"]
            ELSE addStateLocks(Append(cur, l), creating, Tail(locks))

UpsertStates(upserts) ==
    LET withValues == [i \in DOMAIN upserts |-> upserts[i].id]
        hasCreator(u) == u.createdBy # <<>>
        toMakeAvailable == SelectSeq(upserts, hasCreator)
        stateLocks == [i \in DOMAIN toMakeAvailable |->
                          [type |-> "create",
                           tx |-> toMakeAvailable[i].createdBy[1],
                           state |-> toMakeAvailable[i].id]]
        flushErr == checkResetError
    IN /\ Len(txLocks) + Len(stateLocks) <= MaxLocks
       /\ IF flushErr # "none"
          THEN /\ ret' = Ret("UpsertStates", flushErr, <<>>, NoQuery)
               /\ UNCHANGED <<unFlushed, creatingStates, txLocks, overlay>>
          ELSE LET uf == initUnFlushed
                   notReplaced(e) == e \notin Range(withValues)
                   deDuppedUnFlushedStates == SelectSeq(uf.states, notReplaced)
                   creating == [s \in StateIds |->
                                   IF \E i \in DOMAIN toMakeAvailable :
                                          toMakeAvailable[i].id = s
                                   THEN NewCreating ELSE creatingStates[s]]
                   res == addStateLocks(txLocks, creating, stateLocks)
               IN /\ unFlushed' = [uf EXCEPT !.states = deDuppedUnFlushedStates \o withValues]
                  /\ creatingStates' = creating
                  /\ txLocks' = res.txLocks
                  /\ overlay' = overlay \cup Range(withValues)
                  /\ ret' = Ret("UpsertStates", res.err, <<>>, NoQuery)
       /\ UNCHANGED <<flushing, flushCalls, closed, dbStatus, dbNullifiers, failedFlush>>

\* the mutant of attachNullifiers that overwrites the nullifier of a state
RECURSIVE attachNullifiersOverwrite(_, _)
attachNullifiersOverwrite(creating, nullifiers) ==
    IF nullifiers = <<>> THEN [creating |-> creating, err |-> "none"]
    ELSE LET n == Head(nullifiers)
         IN IF ~creating[n.state].present
            THEN [creating |-> creating, err |-> "nullifierStateNotInCtx"]
            ELSE attachNullifiersOverwrite(
                     [creating EXCEPT ![n.state] = [present |-> TRUE, nullifier |-> n.id]],
                     Tail(nullifiers))

\* UpsertNullifiers: the loop over the nullifiers, after they were appended
RECURSIVE attachNullifiers(_, _)
attachNullifiers(creating, nullifiers) ==
    IF nullifiers = <<>> THEN [creating |-> creating, err |-> "none"]
    ELSE LET n == Head(nullifiers)
             creatingState == creating[n.state]
         IN IF ~creatingState.present
            THEN [creating |-> creating, err |-> "nullifierStateNotInCtx"]
            ELSE IF creatingState.nullifier # NoNullifier /\ creatingState.nullifier # n.id
            THEN [creating |-> creating, err |-> "nullifierConflict"]
            ELSE attachNullifiers(
                     [creating EXCEPT ![n.state] = [present |-> TRUE, nullifier |-> n.id]],
                     Tail(nullifiers))

UpsertNullifiers(nullifiers) ==
    LET flushErr == checkResetError
    IN /\ Len(unFlushed.nullifiers) + Len(nullifiers) <= MaxNullifiers
       /\ IF flushErr # "none"
          THEN /\ ret' = Ret("UpsertNullifiers", flushErr, <<>>, NoQuery)
               /\ UNCHANGED <<unFlushed, creatingStates>>
          ELSE LET uf == initUnFlushed
                   res == attachNullifiers(creatingStates, nullifiers)
               IN /\ unFlushed' = [uf EXCEPT !.nullifiers = @ \o nullifiers]
                  /\ creatingStates' = res.creating
                  /\ ret' = Ret("UpsertNullifiers", res.err, <<>>, NoQuery)
       /\ UNCHANGED <<flushing, flushCalls, txLocks, closed, dbStatus,
                      dbNullifiers, overlay, failedFlush>>

AddStateLocks(locks) ==
    LET flushErr == checkResetError
    IN /\ Len(txLocks) + Len(locks) <= MaxLocks
       /\ IF flushErr # "none"
          THEN /\ ret' = Ret("AddStateLocks", flushErr, <<>>, NoQuery)
               /\ UNCHANGED <<unFlushed, txLocks>>
          ELSE LET res == addStateLocks(txLocks, creatingStates, locks)
               IN /\ unFlushed' = initUnFlushed
                  /\ txLocks' = res.txLocks
                  /\ ret' = Ret("AddStateLocks", res.err, <<>>, NoQuery)
       /\ UNCHANGED <<flushing, flushCalls, creatingStates, closed, dbStatus,
                      dbNullifiers, overlay, failedFlush>>

\* the mutant of ClearTransactions that stops after the first lock it drops
ClearTransactionsFirstLock(transactions) ==
    LET matching == {i \in DOMAIN txLocks : txLocks[i].tx \in transactions}
        first == CHOOSE i \in matching : \A j \in matching : i <= j
        kept == IF matching = {} THEN txLocks
                ELSE SubSeq(txLocks, 1, first - 1) \o SubSeq(txLocks, first + 1, Len(txLocks))
    IN /\ txLocks' = kept
       /\ creatingStates' = [s \in StateIds |->
                                IF /\ matching # {}
                                   /\ txLocks[first].type = "create"
                                   /\ txLocks[first].state = s
                                THEN NotCreating ELSE creatingStates[s]]
       /\ ret' = Ret("ClearTransactions", "none", <<>>, NoQuery)
       /\ UNCHANGED <<unFlushed, flushing, flushCalls, closed, dbStatus,
                      dbNullifiers, overlay, failedFlush>>

ClearTransactions(transactions) ==
    LET kept(lock) == lock.tx \notin transactions
        cleared(s) == \E i \in DOMAIN txLocks :
                          /\ txLocks[i].tx \in transactions
                          /\ txLocks[i].type = "create"
                          /\ txLocks[i].state = s
    IN /\ txLocks' = SelectSeq(txLocks, kept)
       /\ creatingStates' = [s \in StateIds |->
                                IF cleared(s) THEN NotCreating ELSE creatingStates[s]]
       /\ ret' = Ret("ClearTransactions", "none", <<>>, NoQuery)
       /\ UNCHANGED <<unFlushed, flushing, flushCalls, closed, dbStatus,
                      dbNullifiers, overlay, failedFlush>>

FindAvailableStates(q) ==
    LET flushErr == checkResetError
    IN /\ IF flushErr # "none"
          THEN /\ ret' = Ret("FindAvailableStates", flushErr, <<>>, q)
               /\ UNCHANGED unFlushed
          ELSE /\ unFlushed' = initUnFlushed
               /\ ret' = Ret("FindAvailableStates", "none", findAvailableStatesResult(q), q)
       /\ UNCHANGED <<flushing, flushCalls, creatingStates, txLocks, closed,
                      dbStatus, dbNullifiers, overlay, failedFlush>>

FindAvailableNullifiers(q) ==
    LET flushErr == checkResetError
    IN /\ IF flushErr # "none"
          THEN /\ ret' = Ret("FindAvailableNullifiers", flushErr, <<>>, q)
               /\ UNCHANGED unFlushed
          ELSE /\ unFlushed' = initUnFlushed
               /\ ret' = Ret("FindAvailableNullifiers", "none",
                             findAvailableNullifiersResult(q), q)
       /\ UNCHANGED <<flushing, flushCalls, creatingStates, txLocks, closed,
                      dbStatus, dbNullifiers, overlay, failedFlush>>

(***************************************************************************)
(* FindAvailableStates and FindAvailableNullifiers step by step.  A find   *)
(* takes dc.stateLock twice, in getUnFlushedStates and again in            *)
(* mergeUnFlushedApplyLocks, and queries the database in between without   *)
(* the lock, so the other operations of the context can run between its    *)
(* steps.  The two actions above are a find that nothing interleaves.      *)
(***************************************************************************)
FindOps == {"FindAvailableStates", "FindAvailableNullifiers"}

IdleFinder ==
    [pc |-> "idle", op |-> "FindAvailableStates", q |-> NoQuery,
     spending |-> {}, nullifiers |-> <<>>, dbStates |-> <<>>]

\* getUnFlushedStates, called first by both finds: under the lock, the spending
\* state ids and the queued nullifiers as they are now
getUnFlushedStates(op, q) ==
    LET flushErr == checkResetError
    IN /\ finder.pc = "idle"
       /\ IF flushErr # "none"
          THEN /\ ret' = Ret(op, flushErr, <<>>, q)
               /\ UNCHANGED <<unFlushed, finder>>
          ELSE /\ unFlushed' = initUnFlushed
               /\ finder' = [pc |-> "query", op |-> op, q |-> q,
                             spending |-> spendingStates,
                             nullifiers |-> unFlushedNullifiers,
                             dbStates |-> <<>>]
               /\ ret' = Ret("getUnFlushedStates", "none", <<>>, q)
       /\ UNCHANGED <<flushing, flushCalls, creatingStates, txLocks, closed,
                      dbStatus, dbNullifiers, overlay, failedFlush, domainContexts>>

\* the query against the database, without the lock, excluding the spending ids
\* read before; a query that fails ends the find with its error
queryDB(ok) ==
    /\ finder.pc = "query"
    /\ IF ok
       THEN /\ finder' = [finder EXCEPT
                   !.pc = "merge",
                   !.dbStates =
                       IF finder.op = "FindAvailableStates"
                       THEN findStates(finder.q, finder.spending)
                       ELSE findAvailableNullifiers(finder.q,
                                {n.state : n \in Range(finder.nullifiers)},
                                finder.spending)]
            /\ ret' = Ret("queryDB", "none", <<>>, finder.q)
       ELSE /\ finder' = IdleFinder
            /\ ret' = Ret(finder.op, "dbError", <<>>, finder.q)
    /\ UNCHANGED <<dcVars_noRet, domainContexts>>

\* the call of mergeUnFlushedApplyLocks that ends both finds: under the lock
\* again, the creating map and the locks as they are now
mergeAndReturn ==
    LET flushErr == checkResetError
    IN /\ finder.pc = "merge"
       /\ finder' = IdleFinder
       /\ IF flushErr # "none"
          THEN /\ ret' = Ret(finder.op, flushErr, <<>>, finder.q)
               /\ UNCHANGED unFlushed
          ELSE /\ unFlushed' = initUnFlushed
               /\ ret' = Ret(finder.op, "none",
                             mergeUnFlushedApplyLocks(finder.dbStates, finder.q,
                                 finder.op = "FindAvailableNullifiers"),
                             finder.q)
       /\ UNCHANGED <<flushing, flushCalls, creatingStates, txLocks, closed,
                      dbStatus, dbNullifiers, overlay, failedFlush, domainContexts>>

(***************************************************************************)
(* The domain context: flush, reset and close.  A slot of flushCalls holds *)
(* one doFlush goroutine with the write operation it was given; the slot   *)
(* is free again once the goroutine has returned and dc.flushing no longer *)
(* points at the operation.                                                *)
(***************************************************************************)
FreeCall ==
    [pc |-> "free", hasOp |-> FALSE, states |-> <<>>, nullifiers |-> <<>>,
     status |-> "ok", sealed |-> {}, abandoned |-> FALSE]

FlushSlots == 1..MaxFlushCalls

freeSlots == {c \in FlushSlots : flushCalls[c].pc = "free"}

\* the slots still referenced, given the new dc.flushing
release(calls, nowFlushing) ==
    [c \in FlushSlots |->
        IF calls[c].pc = "done" /\ c # nowFlushing THEN FreeCall ELSE calls[c]]

\* the mutant of clearExistingFlush that never waits for the flush in progress
clearExistingFlushNoWait(cancelled) ==
    IF flushing = 0 THEN {"none"}
    ELSE IF Flushed(flushing)
         THEN {IF flushCalls[flushing].status = "failed" THEN "flushFailed" ELSE "none"}
         ELSE {"none"}

\* the mutant of clearExistingFlush that takes a cancelled ctx for a completed flush
clearExistingFlushCancelNil(cancelled) ==
    IF flushing = 0 THEN {"none"}
    ELSE (IF Flushed(flushing)
          THEN {IF flushCalls[flushing].status = "failed" THEN "flushFailed" ELSE "none"}
          ELSE {})
         \cup (IF cancelled THEN {"none"} ELSE {})

\* clearExistingFlush: the errors it can return ("none" for nil).  With a flush
\* in progress it blocks (no outcome) unless the caller's context is cancelled;
\* when both channels are ready the select may take either.
clearExistingFlush(cancelled) ==
    IF flushing = 0 THEN {"none"}
    ELSE (IF Flushed(flushing)
          THEN {IF flushCalls[flushing].status = "failed" THEN "flushFailed" ELSE "none"}
          ELSE {})
         \cup (IF cancelled THEN {"cancelled"} ELSE {})

\* the mutant of Reset that keeps the locks of the context
ResetKeepLocks(cancelled) ==
    /\ clearExistingFlush(cancelled) # {}
    /\ creatingStates' = [s \in StateIds |-> NotCreating]
    /\ flushing' = 0
    /\ unFlushed' = NilOp
    /\ flushCalls' = release(
           [c \in FlushSlots |->
               IF flushCalls[c].pc = "free" THEN flushCalls[c]
               ELSE [flushCalls[c] EXCEPT !.abandoned = TRUE]], 0)
    /\ overlay' = {}
    /\ failedFlush' = "none"
    /\ ret' = Ret("Reset", "none", <<>>, NoQuery)
    /\ UNCHANGED <<txLocks, closed, dbStatus, dbNullifiers>>

Reset(cancelled) ==
    /\ clearExistingFlush(cancelled) # {}
    /\ creatingStates' = [s \in StateIds |-> NotCreating]
    /\ flushing' = 0
    /\ unFlushed' = NilOp
    /\ txLocks' = <<>>
    /\ flushCalls' = release(
           [c \in FlushSlots |->
               IF flushCalls[c].pc = "free" THEN flushCalls[c]
               ELSE [flushCalls[c] EXCEPT !.abandoned = TRUE]], 0)
    /\ overlay' = {}
    /\ failedFlush' = "none"
    /\ ret' = Ret("Reset", "none", <<>>, NoQuery)
    /\ UNCHANGED <<closed, dbStatus, dbNullifiers>>

Close ==
    /\ ~closed
    /\ closed' = TRUE
    /\ domainContexts' = domainContexts \ {dcId}
    /\ ret' = Ret("Close", "none", <<>>, NoQuery)
    /\ UNCHANGED <<unFlushed, flushing, flushCalls, creatingStates, txLocks,
                   dbStatus, dbNullifiers, overlay, failedFlush>>

\* the mutant of newFlushCall that starts no goroutine when there is nothing to flush
newFlushCallOnlyWithOp(op) ==
    [pc |-> IF op.nil THEN "done" ELSE "flush",
     hasOp |-> ~op.nil,
     states |-> op.states,
     nullifiers |-> op.nullifiers,
     status |-> IF op.nil THEN "ok" ELSE "queued",
     sealed |-> overlay,
     abandoned |-> FALSE]

\* go dc.doFlush(ctx, asyncCallback, flushing): the goroutine InitiateFlush
\* starts, for the operation it sealed (or for none)
newFlushCall(op) ==
    [pc |-> IF op.nil THEN "callback" ELSE "flush",
     hasOp |-> ~op.nil,
     states |-> op.states,
     nullifiers |-> op.nullifiers,
     status |-> IF op.nil THEN "ok" ELSE "queued",
     sealed |-> overlay,
     abandoned |-> FALSE]

InitiateFlush(cancelled) ==
    /\ \E err \in clearExistingFlush(cancelled) :
          IF err # "none"
          THEN \* sync check: there is already an error
               /\ ret' = Ret("InitiateFlush", err, <<>>, NoQuery)
               /\ UNCHANGED <<unFlushed, flushing, flushCalls, overlay>>
          ELSE \* good to go async
               /\ freeSlots # {}
               /\ LET c == CHOOSE f \in freeSlots : \A g \in freeSlots : f <= g
                      nowFlushing == IF unFlushed.nil THEN 0 ELSE c
                  IN /\ flushing' = nowFlushing
                     /\ flushCalls' = release(
                            [flushCalls EXCEPT ![c] = newFlushCall(unFlushed)],
                            nowFlushing)
               /\ unFlushed' = NilOp
               /\ overlay' = {}
               /\ ret' = Ret("InitiateFlush", "none", <<>>, NoQuery)
    /\ UNCHANGED <<creatingStates, txLocks, closed, dbStatus, dbNullifiers, failedFlush>>

\* writeOperation.flush: the writer commits the whole operation in one database
\* transaction, or fails and commits none of it
flushWrite(c, ok) ==
    IF ok
    THEN /\ dbStatus' = [s \in StateIds |->
                            IF s \in Range(flushCalls[c].states) /\ dbStatus[s] = "none"
                            THEN "stored" ELSE dbStatus[s]]
         /\ dbNullifiers' = dbNullifiers \cup {n.state : n \in Range(flushCalls[c].nullifiers)}
    ELSE UNCHANGED <<dbStatus, dbNullifiers>>

\* the mutant of doFlush that drops the error of the flush
doFlushDropErr(c, ok) ==
    /\ flushCalls[c].pc = "flush"
    /\ flushWrite(c, ok)
    /\ flushCalls' = [flushCalls EXCEPT ![c].pc = "callback",
                                        ![c].states = <<>>,
                                        ![c].status = "ok"]
    /\ failedFlush' = failedFlush
    /\ ret' = Ret("doFlush", "none", <<>>, NoQuery)
    /\ UNCHANGED <<unFlushed, flushing, creatingStates, txLocks, closed, overlay>>

\* doFlush, up to close(flushing.flushed).  Nothing reads the states of a write
\* operation after its flush (its nullifiers are still read through dc.flushing),
\* so the model drops them here.
doFlush(c, ok) ==
    /\ flushCalls[c].pc = "flush"
    /\ flushWrite(c, ok)
    /\ flushCalls' = [flushCalls EXCEPT ![c].pc = "callback",
                                        ![c].states = <<>>,
                                        ![c].status = IF ok THEN "ok" ELSE "failed"]
    /\ failedFlush' = IF ok THEN failedFlush
                      ELSE IF ~flushCalls[c].abandoned THEN "current"
                      ELSE IF failedFlush = "none" THEN "abandoned"
                      ELSE failedFlush
    /\ ret' = Ret("doFlush", "none", <<>>, NoQuery)
    /\ UNCHANGED <<unFlushed, flushing, creatingStates, txLocks, closed, overlay>>

\* doFlush: cb(err), and the goroutine returns
doFlushCallback(c) ==
    /\ flushCalls[c].pc = "callback"
    /\ flushCalls' = release([flushCalls EXCEPT ![c].pc = "done"], flushing)
    /\ ret' = Ret("callback",
                  IF flushCalls[c].status = "failed" THEN "failed" ELSE "nil",
                  [i \in DOMAIN SetToSeq(flushCalls[c].sealed) |->
                      [id |-> SetToSeq(flushCalls[c].sealed)[i], locks |-> <<>>]],
                  NoQuery)
    /\ UNCHANGED <<unFlushed, flushing, creatingStates, txLocks, closed,
                   dbStatus, dbNullifiers, overlay, failedFlush>>

(***************************************************************************)
(* The rest of the node, as far as the context sees it: a stored state is  *)
(* confirmed (and so becomes available), an available state is spent.      *)
(***************************************************************************)
StateConfirmed(s) ==
    /\ dbStatus[s] \in {"none", "stored"}
    /\ dbStatus' = [dbStatus EXCEPT ![s] = "available"]
    /\ ret' = Ret("confirm", "none", <<>>, NoQuery)
    /\ UNCHANGED <<unFlushed, flushing, flushCalls, creatingStates, txLocks,
                   closed, dbNullifiers, overlay, failedFlush>>

StateSpent(s) ==
    /\ dbStatus[s] = "available"
    /\ dbStatus' = [dbStatus EXCEPT ![s] = "spent"]
    /\ ret' = Ret("spend", "none", <<>>, NoQuery)
    /\ UNCHANGED <<unFlushed, flushing, flushCalls, creatingStates, txLocks,
                   closed, dbNullifiers, overlay, failedFlush>>

DCInit ==
    /\ unFlushed = NilOp
    /\ flushing = 0
    /\ flushCalls = [c \in FlushSlots |-> FreeCall]
    /\ creatingStates = [s \in StateIds |-> NotCreating]
    /\ txLocks = <<>>
    /\ closed = FALSE
    /\ dbStatus = [s \in StateIds |-> "none"]
    /\ dbNullifiers = {}
    /\ overlay = {}
    /\ failedFlush = "none"
    /\ ret = Ret("init", "none", <<>>, NoQuery)
    /\ domainContexts = {dcId}
    /\ finder = IdleFinder

(***************************************************************************)
(* The peer: its reliable messages, its two queues and its sender loop.    *)
(* Time is counted in ticks; an age saturates at the resend interval.      *)
(***************************************************************************)
MsgSeqs == 1..MaxMsgs
NoSeq == 0
FireAndForget == -1
TimerStopped == -1

Older(age) == IF age < ReliableMessageResend THEN age + 1 ELSE age

NoMsg == [created |-> FALSE, age |-> 0, acked |-> FALSE, error |-> FALSE, bad |-> FALSE,
          sent |-> FALSE, sentAfterAck |-> 0]

\* the sender outside a scan
senderAt(pc, checkNew, hitInactivityTimeout, resendTimer) ==
    [pc |-> pc, checkNew |-> checkNew, hitInactivityTimeout |-> hitInactivityTimeout,
     resendTimer |-> resendTimer, fullScan |-> FALSE, lastPageEnd |-> NoSeq,
     total |-> 0, page |-> <<>>, msgsToSend |-> <<>>]

\* the reliableScanRetry loop calls reliableMessageScan again
retryScan == senderAt("scan", sender.checkNew, sender.hitInactivityTimeout, TimerStopped)

active == sender.pc # "quiesced"

\* the mutant of unackedAfter that leaves out the join on the ack
unackedAfterAnyAck(lower) ==
    SetToSeq({m \in MsgSeqs : reliableMsgs[m].created /\ m > lower})

\* the query of reliableMessageScan: the rows without an ack, after a sequence,
\* in sequence order
unackedAfter(lower) ==
    SetToSeq({m \in MsgSeqs :
                 reliableMsgs[m].created /\ ~reliableMsgs[m].acked /\ m > lower})

firstPage(list) == IF Len(list) > ReliableMessagePageSize
                   THEN SubSeq(list, 1, ReliableMessagePageSize) ELSE list

\* the mutant of eligible that sends every row of the page
eligibleAnyAge(m) == TRUE

\* processReliableMsgPage: the rows after the high water mark, or old enough to
\* be sent again
eligible(m) ==
    \/ lastDrainHWM = NoSeq
    \/ lastDrainHWM < m
    \/ reliableMsgs[m].age >= ReliableMessageResend

\* reliableMessageScan: entry, up to the first query
reliableMessageScan ==
    /\ sender.pc = "scan"
    /\ LET fullScan == lastDrainHWM = NoSeq \/ lastFullScan >= ReliableMessageResend
       IN sender' = IF ~fullScan /\ ~sender.checkNew
                    THEN [sender EXCEPT !.pc = "scanned"]
                    ELSE [sender EXCEPT !.pc = "query", !.fullScan = fullScan,
                                        !.lastPageEnd = NoSeq, !.total = 0]
    /\ wire' = NoSeq
    /\ UNCHANGED <<reliableMsgs, persistedMsgsAvailable, sendQueue, lastFullScan,
                   lastDrainHWM, persistentMsgsDrained>>

\* reliableMessageScan: after processReliableMsgPage returned nil for s.page
pageProcessed(s) ==
    LET total == s.total + Len(s.page)
        lastPageEnd == IF Len(s.page) > 0 THEN s.page[Len(s.page)] ELSE s.lastPageEnd
        more == Len(s.page) >= ReliableMessagePageSize
    IN [sender |-> IF more
                   THEN [s EXCEPT !.pc = "query", !.total = total,
                                  !.lastPageEnd = lastPageEnd,
                                  !.page = <<>>, !.msgsToSend = <<>>]
                   ELSE senderAt("scanned", s.checkNew, s.hitInactivityTimeout, TimerStopped),
        lastDrainHWM |-> IF ~more /\ (lastPageEnd # NoSeq \/ s.fullScan)
                         THEN lastPageEnd ELSE lastDrainHWM,
        persistentMsgsDrained |->
            IF ~more /\ s.fullScan THEN total = 0
            ELSE IF Len(s.page) > 0 THEN FALSE ELSE persistentMsgsDrained,
        lastFullScan |-> IF ~more /\ s.fullScan THEN 0 ELSE lastFullScan]

\* queryPage without the acks of the messages that cannot be built
queryPageNoErrorAcks(ok) ==
    /\ sender.pc = "query"
    /\ wire' = NoSeq
    /\ UNCHANGED <<persistedMsgsAvailable, sendQueue>>
    /\ IF ~ok
       THEN /\ sender' = retryScan
            /\ UNCHANGED <<reliableMsgs, lastFullScan, lastDrainHWM,
                           persistentMsgsDrained>>
       ELSE LET lower == IF sender.lastPageEnd # NoSeq THEN sender.lastPageEnd
                         ELSE IF ~sender.fullScan THEN lastDrainHWM ELSE NoSeq
                page == firstPage(unackedAfter(lower))
                isBad(m) == eligible(m) /\ reliableMsgs[m].bad
                isGood(m) == eligible(m) /\ ~reliableMsgs[m].bad
                errorAcks == Range(SelectSeq(page, isBad))
                msgsToSend == SelectSeq(page, isGood)
                s == [sender EXCEPT !.pc = "send", !.page = page,
                                    !.msgsToSend = msgsToSend]
            IN /\ reliableMsgs' = [m \in MsgSeqs |->
                                      IF m \in errorAcks
                                      THEN reliableMsgs[m]
                                      ELSE reliableMsgs[m]]
               /\ IF msgsToSend # <<>>
                  THEN /\ sender' = s
                       /\ UNCHANGED <<lastFullScan, lastDrainHWM, persistentMsgsDrained>>
                  ELSE LET r == pageProcessed(s)
                       IN /\ sender' = r.sender
                          /\ lastDrainHWM' = r.lastDrainHWM
                          /\ persistentMsgsDrained' = r.persistentMsgsDrained
                          /\ lastFullScan' = r.lastFullScan

\* reliableMessageScan: one page is queried, its messages are built and the
\* acks, with their error, of the messages that cannot be built are written;
\* ~ok is the failure of the query, of a build (GetState) or of the write of
\* the acks, which all return the error before anything is written
queryPage(ok) ==
    /\ sender.pc = "query"
    /\ wire' = NoSeq
    /\ UNCHANGED <<persistedMsgsAvailable, sendQueue>>
    /\ IF ~ok
       THEN /\ sender' = retryScan
            /\ UNCHANGED <<reliableMsgs, lastFullScan, lastDrainHWM,
                           persistentMsgsDrained>>
       ELSE LET lower == IF sender.lastPageEnd # NoSeq THEN sender.lastPageEnd
                         ELSE IF ~sender.fullScan THEN lastDrainHWM ELSE NoSeq
                page == firstPage(unackedAfter(lower))
                isBad(m) == eligible(m) /\ reliableMsgs[m].bad
                isGood(m) == eligible(m) /\ ~reliableMsgs[m].bad
                errorAcks == Range(SelectSeq(page, isBad))
                msgsToSend == SelectSeq(page, isGood)
                s == [sender EXCEPT !.pc = "send", !.page = page,
                                    !.msgsToSend = msgsToSend]
            IN /\ reliableMsgs' = [m \in MsgSeqs |->
                                      IF m \in errorAcks
                                      THEN [reliableMsgs[m] EXCEPT !.acked = TRUE, !.error = TRUE]
                                      ELSE reliableMsgs[m]]
               /\ IF msgsToSend # <<>>
                  THEN /\ sender' = s
                       /\ UNCHANGED <<lastFullScan, lastDrainHWM, persistentMsgsDrained>>
                  ELSE LET r == pageProcessed(s)
                       IN /\ sender' = r.sender
                          /\ lastDrainHWM' = r.lastDrainHWM
                          /\ persistentMsgsDrained' = r.persistentMsgsDrained
                          /\ lastFullScan' = r.lastFullScan

\* processReliableMsgPage: p.send of the next message of the page
sendReliable(ok) ==
    /\ sender.pc = "send"
    /\ UNCHANGED <<persistedMsgsAvailable, sendQueue>>
    /\ IF ~ok
       THEN /\ sender' = retryScan
            /\ wire' = NoSeq
            /\ UNCHANGED <<reliableMsgs, lastFullScan, lastDrainHWM,
                           persistentMsgsDrained>>
       ELSE LET m == Head(sender.msgsToSend)
                s == [sender EXCEPT !.msgsToSend = Tail(sender.msgsToSend)]
            IN /\ wire' = m
               /\ reliableMsgs' =
                     [reliableMsgs EXCEPT
                         ![m].sent = TRUE,
                         ![m].sentAfterAck =
                             IF reliableMsgs[m].acked /\ reliableMsgs[m].sentAfterAck < 2
                             THEN reliableMsgs[m].sentAfterAck + 1
                             ELSE reliableMsgs[m].sentAfterAck]
               /\ IF s.msgsToSend # <<>>
                  THEN /\ sender' = s
                       /\ UNCHANGED <<lastFullScan, lastDrainHWM, persistentMsgsDrained>>
                  ELSE LET r == pageProcessed(s)
                       IN /\ sender' = r.sender
                          /\ lastDrainHWM' = r.lastDrainHWM
                          /\ persistentMsgsDrained' = r.persistentMsgsDrained
                          /\ lastFullScan' = r.lastFullScan

\* afterScan without the test of the last receive
afterScanAnyReceive(receiveIdle) ==
    /\ sender.pc = "scanned"
    /\ sender' = IF sender.hitInactivityTimeout /\ persistentMsgsDrained
                 THEN senderAt("quiesced", FALSE, FALSE, TimerStopped)
                 ELSE senderAt("select", FALSE, FALSE, 0)
    /\ wire' = NoSeq
    /\ UNCHANGED <<reliableMsgs, persistedMsgsAvailable, sendQueue, lastFullScan,
                   lastDrainHWM, persistentMsgsDrained>>

\* sender: after the scan, quiesce or start the resend timer and wait
afterScan(receiveIdle) ==
    /\ sender.pc = "scanned"
    /\ sender' = IF sender.hitInactivityTimeout /\ persistentMsgsDrained /\ receiveIdle
                 THEN senderAt("quiesced", FALSE, FALSE, TimerStopped)
                 ELSE senderAt("select", FALSE, FALSE, 0)
    /\ wire' = NoSeq
    /\ UNCHANGED <<reliableMsgs, persistedMsgsAvailable, sendQueue, lastFullScan,
                   lastDrainHWM, persistentMsgsDrained>>

\* sender: case <-resendTimer.C
selectResendTimer ==
    /\ sender.pc = "select"
    /\ sender.resendTimer >= ReliableMessageResend
    /\ sender' = senderAt("scan", sender.checkNew, TRUE, TimerStopped)
    /\ wire' = NoSeq
    /\ UNCHANGED <<reliableMsgs, persistedMsgsAvailable, sendQueue, lastFullScan,
                   lastDrainHWM, persistentMsgsDrained>>

\* sender: case <-p.persistedMsgsAvailable
selectPersistedMsgsAvailable ==
    /\ sender.pc = "select"
    /\ persistedMsgsAvailable
    /\ persistedMsgsAvailable' = FALSE
    /\ sender' = senderAt("scan", TRUE, sender.hitInactivityTimeout, TimerStopped)
    /\ wire' = NoSeq
    /\ UNCHANGED <<reliableMsgs, sendQueue, lastFullScan, lastDrainHWM,
                   persistentMsgsDrained>>

\* resendTimer.Stop(): a timer that has not fired never will; whether one that
\* had already fired still delivers on its channel depends on the Go release
stoppedTimer(timer) ==
    IF timer >= ReliableMessageResend THEN {TimerStopped, timer} ELSE {TimerStopped}

\* sender: case msg := <-p.sendQueue
selectSendQueue(ok) ==
    /\ sender.pc = "select"
    /\ sendQueue > 0
    /\ sendQueue' = sendQueue - 1
    /\ \E t \in stoppedTimer(sender.resendTimer) :
          sender' = [sender EXCEPT !.resendTimer = t]
    /\ wire' = IF ok THEN FireAndForget ELSE NoSeq
    /\ UNCHANGED <<reliableMsgs, persistedMsgsAvailable, lastFullScan,
                   lastDrainHWM, persistentMsgsDrained>>

(***************************************************************************)
(* The rest of the node and the remote node, as far as the peer sees them. *)
(***************************************************************************)
\* a reliable message is written, and notifyPersistedMsgAvailable is called
SendReliable(bad) ==
    /\ active
    /\ \E m \in MsgSeqs :
          /\ ~reliableMsgs[m].created
          /\ \A n \in MsgSeqs : n < m => reliableMsgs[n].created
          /\ reliableMsgs' = [reliableMsgs EXCEPT ![m] = [NoMsg EXCEPT !.created = TRUE,
                                                                    !.bad = bad]]
    /\ persistedMsgsAvailable' = TRUE
    /\ wire' = NoSeq
    /\ UNCHANGED <<sendQueue, sender, lastFullScan, lastDrainHWM, persistentMsgsDrained>>

\* a message is put on the fire-and-forget queue
queueFireAndForget ==
    /\ active
    /\ sendQueue < MaxSendQueue
    /\ sendQueue' = sendQueue + 1
    /\ wire' = NoSeq
    /\ UNCHANGED <<reliableMsgs, persistedMsgsAvailable, sender, lastFullScan,
                   lastDrainHWM, persistentMsgsDrained>>

\* the ack of a message the remote node received is written
AckReceived(m) ==
    /\ reliableMsgs[m].sent
    /\ ~reliableMsgs[m].acked
    /\ reliableMsgs' = [reliableMsgs EXCEPT ![m].acked = TRUE]
    /\ wire' = NoSeq
    /\ UNCHANGED <<persistedMsgsAvailable, sendQueue, sender, lastFullScan,
                   lastDrainHWM, persistentMsgsDrained>>

\* time passes
Tick ==
    /\ reliableMsgs' = [m \in MsgSeqs |->
                           IF reliableMsgs[m].created
                           THEN [reliableMsgs[m] EXCEPT !.age = Older(@)]
                           ELSE reliableMsgs[m]]
    /\ lastFullScan' = Older(lastFullScan)
    /\ sender' = IF sender.resendTimer # TimerStopped
                 THEN [sender EXCEPT !.resendTimer = Older(@)] ELSE sender
    /\ wire' = NoSeq
    /\ UNCHANGED <<persistedMsgsAvailable, sendQueue, lastDrainHWM, persistentMsgsDrained>>

PeerInit ==
    /\ reliableMsgs = [m \in MsgSeqs |-> NoMsg]
    /\ persistedMsgsAvailable = FALSE
    /\ sendQueue = 0
    /\ sender = senderAt("scan", FALSE, FALSE, TimerStopped)
    /\ lastFullScan = ReliableMessageResend
    /\ lastDrainHWM = NoSeq
    /\ persistentMsgsDrained = FALSE
    /\ wire = NoSeq

(***************************************************************************)
(* Transaction submission: sendTransactionsNewDBTX run by concurrent       *)
(* callers, each in a database transaction of its own.                     *)
(***************************************************************************)
Submits == 1..NumSubmits
IdempotencyKeys == 1..NumKeys
NoKey == 0

\* the idempotency keys of the transactionRows of one submit, in order
Batches ==
    UNION {[1..n -> IdempotencyKeys \cup {NoKey}] : n \in 1..MaxBatch}

\* uuid.New() in resolveNewTransaction: the id of transaction i of submit s
txID(s, i) == (s - 1) * (MaxBatch + 1) + i

NoResult == [kind |-> "none", ids |-> {}]
NewSubmit == [pc |-> "new", txs |-> <<>>, collided |-> {}, origErr |-> "none",
              lookup |-> "none", result |-> NoResult]

\* notEmptyOrNull: the keys that are stored, and so are subject to the unique index
keysOf(batch) == {batch[i] : i \in DOMAIN batch} \ {NoKey}

rowsOf(s, batch) == {[id |-> txID(s, i), key |-> batch[i]] : i \in DOMAIN batch}

committed(keys) == {r \in transactionRows : r.key \in keys}

\* the mutant of uniqueViolation with no unique index on the key
uniqueViolationNoIndex(batch) == FALSE

\* the rows of the batch break the unique index on idempotency_key: against a
\* committed row, or against each other
uniqueViolation(batch) ==
    \/ committed(keysOf(batch)) # {}
    \/ \E i, j \in DOMAIN batch : i # j /\ batch[i] = batch[j] /\ batch[i] # NoKey

\* an insert waits while another database transaction holds an uncommitted row
\* with one of its keys
insertWaits(s) ==
    \E o \in Submits \ {s} :
        /\ submits[o].pc = "inserted"
        /\ keysOf(submits[o].txs) \cap keysOf(submits[s].txs) # {}

\* processNewTransactions: resolveNewTransaction and the public transaction
\* validation, for every transaction of the submit
resolveNewTransactions(s, batch, valid) ==
    /\ submits[s].pc = "new"
    /\ submits' = [submits EXCEPT ![s] =
                      IF valid
                      THEN [NewSubmit EXCEPT !.pc = "insert", !.txs = batch,
                                             !.collided = {r.key : r \in committed(keysOf(batch))}]
                      ELSE [NewSubmit EXCEPT !.pc = "done", !.txs = batch,
                                             !.collided = {r.key : r \in committed(keysOf(batch))},
                                             !.result = [kind |-> "invalid", ids |-> {}]]]
    /\ UNCHANGED transactionRows

\* processNewTransactions: insertTransactions with ignoreConflicts false; on an
\* error the post-rollback hook is added and the error is returned
insertTransactions(s, dbOk) ==
    /\ submits[s].pc = "insert"
    /\ ~insertWaits(s)
    /\ submits' = [submits EXCEPT ![s] =
                      IF ~dbOk
                      THEN [@ EXCEPT !.pc = "rollback", !.origErr = "insertFailed"]
                      ELSE IF uniqueViolation(submits[s].txs)
                      THEN [@ EXCEPT !.pc = "rollback", !.origErr = "uniqueViolation"]
                      ELSE [@ EXCEPT !.pc = "inserted"]]
    /\ UNCHANGED transactionRows

\* processNewTransactions after the insert (the public and private transaction
\* managers), and the commit; a failure rolls back with no hook to run
completeSubmit(s, ok) ==
    /\ submits[s].pc = "inserted"
    /\ IF ok
       THEN /\ transactionRows' = transactionRows \cup rowsOf(s, submits[s].txs)
            /\ submits' = [submits EXCEPT ![s].pc = "done",
                              ![s].result = [kind |-> "ok",
                                             ids |-> rowsOf(s, submits[s].txs)]]
       ELSE /\ submits' = [submits EXCEPT ![s].pc = "done",
                              ![s].result = [kind |-> "failed", ids |-> {}]]
            /\ UNCHANGED transactionRows

\* the mutant of idempotencyKeyResult that always returns the original error
idempotencyKeyResultOrigErr(origErr, keys, lookupOk) == [kind |-> origErr, ids |-> {}]

\* checkIdempotencyKeys: the error it returns
idempotencyKeyResult(origErr, keys, lookupOk) ==
    IF keys # {} /\ lookupOk /\ committed(keys) # {}
    THEN [kind |-> "idempotencyKeyClash", ids |-> committed(keys)]
    ELSE [kind |-> origErr, ids |-> {}]

\* the post-rollback hook of the submit: checkIdempotencyKeys, outside the
\* transaction that was rolled back
checkIdempotencyKeys(s, lookupOk) ==
    /\ submits[s].pc = "rollback"
    /\ LET keys == keysOf(submits[s].txs)
       IN submits' = [submits EXCEPT
             ![s].pc = "done",
             ![s].lookup = IF keys = {} THEN "none"
                           ELSE IF ~lookupOk THEN "failed"
                           ELSE IF committed(keys) # {} THEN "found" ELSE "empty",
             ![s].result = idempotencyKeyResult(submits[s].origErr, keys, lookupOk)]
    /\ UNCHANGED transactionRows

TxInit ==
    /\ transactionRows = {}
    /\ submits = [s \in Submits |-> NewSubmit]

(***************************************************************************)
(* The transport manager's peers map for one node name (part_008):         *)
(* getPeer, connectPeer, startSender, deactivate, senderCleanup and close. *)
(* The sender loop of a peer is reduced here to what it does to the        *)
(* channels and to its return; its scan is the peer model above.           *)
(***************************************************************************)
PeerIds == 1..MaxPeers
Callers == 1..NumCallers
\* tm.peers[nodeName] == nil
NoPeer == 0
\* tm.transportsByName: the transports configured on the local node
transportsByName == {"grpc", "jms"}
\* the transports a node can be registered with
RegisteredTransports == transportsByName \cup {"ws"}
\* a nil p.transport
NoTransport == "nil"
\* what registryManager.GetNodeTransports returns: an error, or the transport
\* details of the node in the order of the registry
NodeTransports ==
    {[ok |-> FALSE, details |-> <<>>]} \cup
    {[ok |-> TRUE, details |-> d] :
        d \in {<<>>, <<"grpc">>, <<"ws">>, <<"grpc", "jms">>, <<"grpc", "ws">>,
               <<"ws", "jms">>}}

NoCall == [op |-> "none", transport |-> NoTransport, ok |-> TRUE]
ActivateNode(t, ok) == [op |-> "ActivateNode", transport |-> t, ok |-> ok]
DeactivateNode(t) == [op |-> "DeactivateNode", transport |-> t, ok |-> TRUE]

\* a peer object: status is "none" before it is allocated, "new" once
\* connectPeer made it, "sender" while its goroutine is in the loop of sender,
\* "cleanup" once sender returned, "window" in the loop of senderCleanup,
\* "done" once senderDone is closed
NoPeerObj == [status |-> "none", senderStarted |-> FALSE, transport |-> NoTransport,
              sendQueue |-> 0, persistedMsgsAvailable |-> FALSE,
              quiescing |-> FALSE, cancelled |-> FALSE]
IdleCaller == [pc |-> "idle", kind |-> "send", p |-> NoPeer]
CallKinds == {"send", "notify", "receive"}
sendingOf(kind) == kind # "receive"

\* startSender, lines 158-161 as the loop is written: every registered
\* transport assigns p.transport, found locally or not
lastTransportOfLoop(details, t) ==
    IF details = <<>> THEN t
    ELSE LET last == details[Len(details)]
         IN IF last \in transportsByName THEN last ELSE NoTransport

\* startSender on peer object p: the object afterwards, the error, and the
\* call made on the transport plugin
startSender(p, reg, activateOk) ==
    IF ~reg.ok THEN [peer |-> p, err |-> TRUE, call |-> NoCall]
    ELSE LET t == lastTransportOfLoop(reg.details, p.transport)
             q == [p EXCEPT !.transport = t]
         IN IF t = NoTransport THEN [peer |-> q, err |-> TRUE, call |-> NoCall]
            ELSE IF ~activateOk
            THEN [peer |-> q, err |-> TRUE, call |-> ActivateNode(t, FALSE)]
            ELSE [peer |-> [q EXCEPT !.senderStarted = TRUE, !.status = "sender"],
                  err |-> FALSE, call |-> ActivateNode(t, TRUE)]

\* the next peer object to allocate
freshPeer ==
    IF \E q \in PeerIds : peerObjs[q].status = "none"
    THEN CHOOSE q \in PeerIds : /\ peerObjs[q].status = "none"
                                /\ \A r \in 1..(q - 1) : peerObjs[r].status # "none"
    ELSE NoPeer

activate(acts, call) ==
    IF call.op = "ActivateNode" /\ call.ok
    THEN [acts EXCEPT ![call.transport] = @ + 1] ELSE acts

\* connectPeer with the peers lock held: the map, the objects, the activations
\* and the call made afterwards, the peer returned and the error
\* connectPeer without the second look at the map under the lock
connectPeerNoRecheck(sending, reg, activateOk) ==
    LET q == IF peers = NoPeer THEN freshPeer ELSE peers
        objs == IF peers = NoPeer
                THEN [peerObjs EXCEPT ![q] = [NoPeerObj EXCEPT !.status = "new"]]
                ELSE peerObjs
        s == startSender(objs[q], reg, activateOk)
    IN IF sending
       THEN [peers |-> q, peerObjs |-> [objs EXCEPT ![q] = s.peer],
             activations |-> activate(activations, s.call), call |-> s.call,
             p |-> IF s.err THEN NoPeer ELSE q, err |-> s.err]
       ELSE [peers |-> q, peerObjs |-> objs, activations |-> activations,
             call |-> NoCall, p |-> q, err |-> FALSE]
connectPeer(sending, reg, activateOk) ==
    IF peers # NoPeer /\ (peerObjs[peers].senderStarted \/ ~sending)
    THEN [peers |-> peers, peerObjs |-> peerObjs, activations |-> activations,
          call |-> NoCall, p |-> peers, err |-> FALSE]
    ELSE LET q == IF peers = NoPeer THEN freshPeer ELSE peers
             objs == IF peers = NoPeer
                     THEN [peerObjs EXCEPT ![q] = [NoPeerObj EXCEPT !.status = "new"]]
                     ELSE peerObjs
             s == startSender(objs[q], reg, activateOk)
         IN IF sending
            THEN [peers |-> q, peerObjs |-> [objs EXCEPT ![q] = s.peer],
                  activations |-> activate(activations, s.call), call |-> s.call,
                  p |-> IF s.err THEN NoPeer ELSE q, err |-> s.err]
            ELSE [peers |-> q, peerObjs |-> objs, activations |-> activations,
                  call |-> NoCall, p |-> q, err |-> FALSE]
\* connectPeer can allocate the object it needs
canConnect == peers # NoPeer \/ freshPeer # NoPeer

\* getPeer up to its call of connectPeer: the read-locked lookup
getPeer(c, kind) ==
    /\ callers[c].pc = "idle"
    /\ callers' = [callers EXCEPT ![c] =
          IF peers # NoPeer /\ (peerObjs[peers].senderStarted \/ ~sendingOf(kind))
          THEN [pc |-> "got", kind |-> kind, p |-> peers]
          ELSE [pc |-> "connect", kind |-> kind, p |-> NoPeer]]
    /\ transportCall' = NoCall
    /\ UNCHANGED <<peers, peerObjs, activations>>

\* getPeer from its call of connectPeer
getPeerConnect(c, reg, activateOk) ==
    /\ callers[c].pc = "connect"
    /\ canConnect
    /\ LET r == connectPeer(sendingOf(callers[c].kind), reg, activateOk)
       IN /\ peers' = r.peers
          /\ peerObjs' = r.peerObjs
          /\ activations' = r.activations
          /\ transportCall' = r.call
          /\ callers' = [callers EXCEPT ![c] =
                IF r.err THEN IdleCaller ELSE [@ EXCEPT !.pc = "got", !.p = r.p]]

\* what the caller does with the peer it got: queueFireAndForget puts the
\* message on p.sendQueue unless it is full, notifyPersistedMsgAvailable fills
\* the channel of capacity one, a receive updates the statistics
useOfPeer(c) ==
    /\ callers[c].pc = "got"
    /\ LET p == callers[c].p
       IN peerObjs' =
            IF callers[c].kind = "send" /\ peerObjs[p].sendQueue < MaxSendQueue
            THEN [peerObjs EXCEPT ![p].sendQueue = @ + 1]
            ELSE IF callers[c].kind = "notify"
            THEN [peerObjs EXCEPT ![p].persistedMsgsAvailable = TRUE]
            ELSE peerObjs
    /\ callers' = [callers EXCEPT ![c] = IdleCaller]
    /\ transportCall' = NoCall
    /\ UNCHANGED <<peers, activations>>

\* sender: a message of p.sendQueue is sent
senderSendQueue(p) ==
    /\ peerObjs[p].status = "sender"
    /\ peerObjs[p].sendQueue > 0
    /\ peerObjs' = [peerObjs EXCEPT ![p].sendQueue = @ - 1]
    /\ transportCall' = NoCall
    /\ UNCHANGED <<peers, activations, callers>>

\* sender: the notification is taken and the reliable messages are scanned
senderPersistedMsgsAvailable(p) ==
    /\ peerObjs[p].status = "sender"
    /\ peerObjs[p].persistedMsgsAvailable
    /\ peerObjs' = [peerObjs EXCEPT ![p].persistedMsgsAvailable = FALSE]
    /\ transportCall' = NoCall
    /\ UNCHANGED <<peers, activations, callers>>

\* sender returns: to quiesce (p.quiescing = true), or because its context is
\* done
senderReturn(p, quiesce) ==
    /\ peerObjs[p].status = "sender"
    /\ quiesce \/ peerObjs[p].cancelled
    /\ peerObjs' = [peerObjs EXCEPT ![p].status = "cleanup", ![p].quiescing = quiesce]
    /\ transportCall' = NoCall
    /\ UNCHANGED <<peers, activations, callers>>

\* deactivate, with the peers lock held, and the test of the loop of
\* senderCleanup that follows it
deactivate(p) ==
    /\ peerObjs[p].status = "cleanup"
    /\ peers' = NoPeer
    /\ activations' = [activations EXCEPT ![peerObjs[p].transport] = @ - 1]
    /\ transportCall' = DeactivateNode(peerObjs[p].transport)
    /\ peerObjs' = [peerObjs EXCEPT ![p].status =
                       IF peerObjs[p].quiescing THEN "window" ELSE "done"]
    /\ UNCHANGED callers

\* cleanupSendQueue that drops the message it took
cleanupSendQueueDrop(p, reg, activateOk) ==
    /\ peerObjs[p].status = "window"
    /\ peerObjs[p].sendQueue > 0
    /\ peerObjs' = [peerObjs EXCEPT ![p].sendQueue = @ - 1]
    /\ transportCall' = NoCall
    /\ UNCHANGED <<peers, activations, callers>>

\* senderCleanup: case msg := <-p.sendQueue, the message goes through
\* queueFireAndForget again and the error is dropped
cleanupSendQueue(p, reg, activateOk) ==
    /\ peerObjs[p].status = "window"
    /\ peerObjs[p].sendQueue > 0
    /\ canConnect
    /\ LET r == connectPeer(TRUE, reg, activateOk)
           objs == [r.peerObjs EXCEPT ![p].sendQueue = @ - 1]
       IN /\ peers' = r.peers
          /\ activations' = r.activations
          /\ transportCall' = r.call
          /\ peerObjs' = IF ~r.err /\ objs[r.p].sendQueue < MaxSendQueue
                         THEN [objs EXCEPT ![r.p].sendQueue = @ + 1]
                         ELSE objs
    /\ UNCHANGED callers

\* senderCleanup: case <-p.persistedMsgsAvailable, getPeer for sending and the
\* error is dropped
cleanupPersistedMsgsAvailable(p, reg, activateOk) ==
    /\ peerObjs[p].status = "window"
    /\ peerObjs[p].persistedMsgsAvailable
    /\ canConnect
    /\ LET r == connectPeer(TRUE, reg, activateOk)
       IN /\ peers' = r.peers
          /\ activations' = r.activations
          /\ transportCall' = r.call
          /\ peerObjs' = [r.peerObjs EXCEPT ![p].persistedMsgsAvailable = FALSE]
    /\ UNCHANGED callers

\* senderCleanup: case <-time.After(quiesceTimeout), taken by a select that
\* found both channels empty; then close(p.senderDone)
cleanupTimeout(p) ==
    /\ peerObjs[p].status = "window"
    /\ peerObjs[p].sendQueue = 0
    /\ ~peerObjs[p].persistedMsgsAvailable
    /\ peerObjs' = [peerObjs EXCEPT ![p].status = "done", ![p].quiescing = FALSE]
    /\ transportCall' = NoCall
    /\ UNCHANGED <<peers, activations, callers>>

\* close: p.cancelCtx()
close(p) ==
    /\ peerObjs[p].status \in {"new", "sender"}
    /\ ~peerObjs[p].cancelled
    /\ peerObjs' = [peerObjs EXCEPT ![p].cancelled = TRUE]
    /\ transportCall' = NoCall
    /\ UNCHANGED <<peers, activations, callers>>

TMInit ==
    /\ peers = NoPeer
    /\ peerObjs = [p \in PeerIds |-> NoPeerObj]
    /\ activations = [t \in transportsByName |-> 0]
    /\ callers = [c \in Callers |-> IdleCaller]
    /\ transportCall = NoCall

(***************************************************************************)
(* The receive statistics of the peer, as far as the sender reads them.    *)
(***************************************************************************)
\* a nil p.Stats.LastReceive
NoReceive == -1
\* one tick more since the last receive; the age saturates above the timeout
OlderReceive(age) ==
    IF age = NoReceive \/ age > PeerInactivityTimeout THEN age ELSE age + 1
\* sender: nothing was received, or the last receive is older than
\* peerInactivityTimeout
receiveIdle == lastReceive = NoReceive \/ lastReceive > PeerInactivityTimeout

\* updateReceivedStats: a message of the peer is received
updateReceivedStats ==
    /\ active
    /\ lastReceive' = 0
    /\ wire' = NoSeq
    /\ UNCHANGED <<reliableMsgs, persistedMsgsAvailable, sendQueue, sender, lastFullScan,
                   lastDrainHWM, persistentMsgsDrained>>

RxInit == lastReceive = NoReceive

(***************************************************************************)
(* The versions of an in-flight public transaction (publictxmgr, type      *)
(* inFlightTransactionState).  NewVersion, GetCurrentVersion and           *)
(* CanBeRemoved are in the source; the stage controller and the versions   *)
(* themselves are modelled from the specification and from the tests of    *)
(* the updates.  Time is counted in ticks.                                 *)
(***************************************************************************)
\* a nil runningStageContext
NoContext == [stage |-> "none", output |-> "none", errored |-> FALSE]
\* NewRunningStageContext
NewRunningStageContext(stage) == [stage |-> stage, output |-> "none", errored |-> FALSE]
\* a PersistenceOutput in bufferedStageOutputs: whether it carries a
\* PersistenceError, and the time since PersistenceOutput.Time
PersistenceOutput(ok) == [ok |-> ok, age |-> 0]

NewInFlightTransactionStateVersion(id) ==
    [id |-> id, current |-> TRUE, cancelled |-> FALSE, runningStageContext |-> NoContext,
     stageDone |-> "none", bufferedStageOutputs |-> <<>>]

VersionIds == 1..MaxVersions
NoActions == {}
trigger(v, action) == [version |-> v, action |-> action]

GetCurrentVersion == versions[Len(versions)]

\* NewVersion without SetCurrent(false)
NewVersionKeepsCurrent(list) ==
    Append([list EXCEPT ![Len(list)].cancelled = TRUE],
           NewInFlightTransactionStateVersion(Len(list)))
\* NewVersion: the last version is marked not current and cancelled, and a
\* version whose id is the number of versions is appended
NewVersion(list) ==
    Append([list EXCEPT ![Len(list)].current = FALSE, ![Len(list)].cancelled = TRUE],
           NewInFlightTransactionStateVersion(Len(list)))

\* CanBeRemoved
CanBeRemoved == readyToExit

\* time.Since(PersistenceOutput.Time) > persistenceRetryTimeout
retryDue(o) == o.age > PersistenceRetryTimeout

\* previousVersion that retries a failed write at once
previousVersionNoTimeout(v) ==
    IF v.bufferedStageOutputs = <<>> THEN v
    ELSE LET o == Head(v.bufferedStageOutputs)
         IN IF ~o.ok
            THEN [v EXCEPT !.bufferedStageOutputs = Tail(@)]
            ELSE [v EXCEPT !.bufferedStageOutputs = Tail(@),
                           !.runningStageContext = NoContext]
\* previousVersion that leaves the running stage context of the version
previousVersionKeepsContext(v) ==
    IF v.bufferedStageOutputs = <<>> THEN v
    ELSE LET o == Head(v.bufferedStageOutputs)
         IN IF ~o.ok
            THEN IF retryDue(o) THEN [v EXCEPT !.bufferedStageOutputs = Tail(@)] ELSE v
            ELSE [v EXCEPT !.bufferedStageOutputs = Tail(@)]
\* the stage controller on a version that is not the current one: the version
\* afterwards
previousVersion(v) ==
    IF v.bufferedStageOutputs = <<>> THEN v
    ELSE LET o == Head(v.bufferedStageOutputs)
         IN IF ~o.ok
            THEN IF retryDue(o) THEN [v EXCEPT !.bufferedStageOutputs = Tail(@)] ELSE v
            ELSE [v EXCEPT !.bufferedStageOutputs = Tail(@),
                           !.runningStageContext = NoContext]

\* the stage controller on the current version: the version afterwards
currentVersion(v) ==
    IF v.bufferedStageOutputs # <<>>
    THEN LET o == Head(v.bufferedStageOutputs)
             rsc == v.runningStageContext
         IN IF ~o.ok
            THEN IF retryDue(o) THEN [v EXCEPT !.bufferedStageOutputs = Tail(@)] ELSE v
            ELSE IF rsc.output = "signed"
            THEN [v EXCEPT !.bufferedStageOutputs = Tail(@), !.stageDone = "signed",
                           !.runningStageContext = NewRunningStageContext("Submitting")]
            ELSE IF rsc.output = "submitted"
            THEN [v EXCEPT !.bufferedStageOutputs = Tail(@), !.stageDone = "submitted",
                           !.runningStageContext = NoContext]
            ELSE [v EXCEPT !.bufferedStageOutputs = Tail(@),
                           !.runningStageContext.errored = TRUE]
    ELSE IF v.runningStageContext = NoContext /\ v.stageDone = "none"
    THEN [v EXCEPT !.runningStageContext = NewRunningStageContext("Signing")]
    ELSE v

\* the actions the stage controller triggers when it takes version i from
\* before to after
triggered(i, before, after) ==
    (IF /\ before.bufferedStageOutputs # <<>>
        /\ ~Head(before.bufferedStageOutputs).ok
        /\ after.bufferedStageOutputs # before.bufferedStageOutputs
     THEN {trigger(i, "persist")} ELSE {})
    \cup
    (IF after.runningStageContext.stage # before.runningStageContext.stage
     THEN IF after.runningStageContext.stage = "Signing" THEN {trigger(i, "sign")}
          ELSE IF after.runningStageContext.stage = "Submitting" THEN {trigger(i, "submit")}
          ELSE {}
     ELSE {})

\* ProduceLatestInFlightStageContext: the earlier versions, then the current
ProduceLatestInFlightStageContext ==
    LET after == [i \in DOMAIN versions |->
                     IF i < Len(versions) THEN previousVersion(versions[i])
                     ELSE currentVersion(versions[i])]
    IN /\ versions' = after
       /\ stageAction' = UNION {triggered(i, versions[i], after[i]) : i \in DOMAIN versions}
       /\ UNCHANGED readyToExit

\* UpdateTransaction: an update of the transaction opens a version
UpdateTransaction ==
    /\ Len(versions) < MaxVersions
    /\ versions' = NewVersion(versions)
    /\ stageAction' = NoActions
    /\ UNCHANGED readyToExit

\* the sign or the submit that was triggered for a stage returns
stageOutput(i, ok) ==
    /\ i \in DOMAIN versions
    /\ versions[i].runningStageContext # NoContext
    /\ versions[i].runningStageContext.output = "none"
    /\ versions' = [versions EXCEPT ![i].runningStageContext.output =
          IF versions[i].runningStageContext.stage = "Signing"
          THEN IF ok THEN "signed" ELSE "signErr"
          ELSE IF ok THEN "submitted" ELSE "submitErr"]
    /\ stageAction' = NoActions
    /\ UNCHANGED readyToExit

\* the write of the stage's output returns: a PersistenceOutput is buffered
persistenceOutput(i, ok) ==
    /\ i \in DOMAIN versions
    /\ versions[i].runningStageContext.output # "none"
    /\ ~versions[i].runningStageContext.errored
    /\ versions[i].bufferedStageOutputs = <<>>
    /\ versions' = [versions EXCEPT ![i].bufferedStageOutputs = <<PersistenceOutput(ok)>>]
    /\ stageAction' = NoActions
    /\ UNCHANGED readyToExit

\* the transaction is confirmed or has failed
confirmed ==
    /\ ~readyToExit
    /\ readyToExit' = TRUE
    /\ stageAction' = NoActions
    /\ UNCHANGED versions

\* time passes for the buffered outputs
persistenceTick ==
    /\ versions' = [i \in DOMAIN versions |->
          [versions[i] EXCEPT !.bufferedStageOutputs =
              [k \in DOMAIN @ |-> IF retryDue(@[k]) THEN @[k]
                                  ELSE [@[k] EXCEPT !.age = @ + 1]]]]
    /\ stageAction' = NoActions
    /\ UNCHANGED readyToExit

IFInit ==
    /\ versions = <<NewInFlightTransactionStateVersion(0)>>
    /\ readyToExit = FALSE
    /\ stageAction = NoActions

(***************************************************************************)
(* Transaction submission inside one database transaction                 *)
(* (txmgr/transaction_submission.go): processNewTransactions with its      *)
(* public transactions, insertTransactions with its post-commit hook on    *)
(* the transaction cache, and UpsertInternalPrivateTxsFinalizeIDs.  The    *)
(* database transaction (persistence.Transaction) and the public and       *)
(* private transaction managers are modelled from the specification.       *)
(***************************************************************************)
TxIdSpace == 1..MaxTxIds
TxTypes == {"public", "private"}
SubmitModes == {"auto", "external"}

\* the transactions of one call: the idempotency key and the type of each
TxInputs ==
    UNION {[1..n -> [key : IdempotencyKeys \cup {NoKey}, type : TxTypes]] : n \in 1..MaxBatch}

\* where a call can fail
FailurePoints ==
    {"none", "resolve", "validate", "insert", "publicWrite", "privateHandle", "commit"}

\* a database transaction that has written nothing yet
NewDBTX == [rows |-> {}, publicTxns |-> <<>>, postCommit |-> <<>>,
            postRollback |-> FALSE]

NoSubmit == [op |-> "none", ids |-> <<>>, types |-> <<>>, err |-> "none"]

\* resolveNewTransaction for every input: uuid.New() gives each an id
resolved(inputs) ==
    [i \in DOMAIN inputs |->
        [id |-> nextTxID + i - 1, key |-> inputs[i].key, type |-> inputs[i].type]]

\* resolveNewTransaction refuses a public transaction in SubmitModeExternal
resolveFails(inputs, submitMode) ==
    submitMode = "external" /\ \E i \in DOMAIN inputs : inputs[i].type = "public"

idsOfTxs(txis) == [i \in DOMAIN txis |-> txis[i].id]
publicOf(txis) == SelectSeq(txis, LAMBDA x : x.type = "public")

\* the rows a database transaction sees: the committed ones and its own
visibleRows(dbTX) == transactionsTable \cup dbTX.rows

\* the rows of txis[1..k] that an insert stores when a row whose idempotency
\* key is taken is skipped (ON CONFLICT DO NOTHING)
RECURSIVE insertedRows(_, _, _)
insertedRows(dbTX, txis, k) ==
    IF k = 0 THEN {}
    ELSE LET before == insertedRows(dbTX, txis, k - 1)
             taken == /\ txis[k].key # NoKey
                      /\ \E r \in visibleRows(dbTX) \cup before : r.key = txis[k].key
         IN IF taken THEN before ELSE before \cup {txis[k]}

\* the post-commit hook of insertTransactions that sets the cache whatever
\* the number of rows inserted
postCommitAlways(hook) == {hook.ids[i] : i \in DOMAIN hook.ids}

\* the post-commit hook of insertTransactions: the ids it puts in the cache
postCommitHook(hook) ==
    IF hook.rowsAffected = Len(hook.ids)
    THEN {hook.ids[i] : i \in DOMAIN hook.ids}
    ELSE {}

\* insertTransactions: the error, the count of rows inserted and the database
\* transaction afterwards
insertTransactions2(dbTX, txis, ignoreConflicts, dbOk) ==
    LET rows == insertedRows(dbTX, txis, Len(txis))
    IN IF ~dbOk
       THEN [err |-> "insertFailed", rowsAffected |-> -1, dbTX |-> dbTX]
       ELSE IF ~ignoreConflicts /\ Cardinality(rows) # Len(txis)
       THEN [err |-> "uniqueViolation", rowsAffected |-> -1, dbTX |-> dbTX]
       ELSE [err |-> "none", rowsAffected |-> Cardinality(rows),
             dbTX |-> [dbTX EXCEPT
                 !.rows = @ \cup rows,
                 !.postCommit = Append(@, [rowsAffected |-> Cardinality(rows),
                                           ids |-> idsOfTxs(txis)])]]

\* WriteNewTransactions: one public transaction for each submission, with its binding
WriteNewTransactions(dbTX, publicTxs) ==
    [dbTX EXCEPT !.publicTxns = @ \o [i \in DOMAIN publicTxs |-> publicTxs[i].id]]

\* processNewTransactions that goes on when WriteNewTransactions fails
processNewTransactionsDropPublicErr(dbTX, inputs, submitMode, fail) ==
    LET txis == resolved(inputs)
        publicTxs == publicOf(txis)
        ins == insertTransactions2(dbTX, txis, FALSE, fail # "insert")
        written == WriteNewTransactions(ins.dbTX, publicTxs)
    IN IF fail = "resolve" \/ resolveFails(inputs, submitMode)
       THEN [err |-> "resolve", dbTX |-> dbTX, ids |-> <<>>]
       ELSE IF ins.err # "none"
       THEN [err |-> ins.err, dbTX |-> [dbTX EXCEPT !.postRollback = TRUE], ids |-> <<>>]
       ELSE IF fail = "publicWrite" /\ publicTxs # <<>>
       THEN [err |-> "none", dbTX |-> ins.dbTX, ids |-> idsOfTxs(txis)]
       ELSE [err |-> "none", dbTX |-> written, ids |-> idsOfTxs(txis)]

\* processNewTransactions: the error, the database transaction afterwards and
\* the ids returned
processNewTransactions(dbTX, inputs, submitMode, fail) ==
    LET txis == resolved(inputs)
        publicTxs == publicOf(txis)
        ins == insertTransactions2(dbTX, txis, FALSE, fail # "insert")
        written == WriteNewTransactions(ins.dbTX, publicTxs)
    IN IF fail = "resolve" \/ resolveFails(inputs, submitMode)
       THEN [err |-> "resolve", dbTX |-> dbTX, ids |-> <<>>]
       ELSE IF fail = "validate" /\ publicTxs # <<>>
       THEN [err |-> "validate", dbTX |-> dbTX, ids |-> <<>>]
       ELSE IF ins.err # "none"
       THEN [err |-> ins.err, dbTX |-> [dbTX EXCEPT !.postRollback = TRUE], ids |-> <<>>]
       ELSE IF fail = "publicWrite" /\ publicTxs # <<>>
       THEN [err |-> "publicWrite", dbTX |-> ins.dbTX, ids |-> <<>>]
       ELSE IF fail = "privateHandle" /\ \E i \in DOMAIN txis : txis[i].type = "private"
       THEN [err |-> "privateHandle", dbTX |-> written, ids |-> <<>>]
       ELSE [err |-> "none", dbTX |-> written, ids |-> idsOfTxs(txis)]

\* UpsertInternalPrivateTxsFinalizeIDs: the error and the database transaction
\* afterwards; the ids of the transactions whose key is already stored are
\* replaced by the stored ids
UpsertInternalPrivateTxsFinalizeIDs(dbTX, inputs, dbOk, lookupOk) ==
    LET txis == resolved(inputs)
        ins == insertTransactions2(dbTX, txis, TRUE, dbOk)
        txsInDB == {r \in visibleRows(ins.dbTX) : \E i \in DOMAIN txis : r.key = txis[i].key}
        matches(i) == {r \in txsInDB : r.key # NoKey /\ r.key = txis[i].key}
        matchCount == Cardinality({<<i, r>> \in (DOMAIN txis) \X txsInDB : r \in matches(i)})
        finalized == [i \in DOMAIN txis |->
                        IF matches(i) = {} THEN txis[i].id
                        ELSE (CHOOSE r \in matches(i) : TRUE).id]
    IN IF ins.err # "none" THEN [err |-> ins.err, dbTX |-> dbTX, ids |-> <<>>]
       ELSE IF ins.rowsAffected = Len(txis)
       THEN [err |-> "none", dbTX |-> ins.dbTX, ids |-> idsOfTxs(txis)]
       ELSE IF ~lookupOk THEN [err |-> "lookupFailed", dbTX |-> ins.dbTX, ids |-> <<>>]
       ELSE IF matchCount # Len(txis)
       THEN [err |-> "mismatch", dbTX |-> ins.dbTX, ids |-> <<>>]
       ELSE [err |-> "none", dbTX |-> ins.dbTX, ids |-> finalized]

\* persistence.Transaction after its function returned res: the commit with
\* the post-commit hooks, or the rollback
Transaction(op, inputs, res, commitOk) ==
    LET ok == res.err = "none" /\ commitOk
        dbTX == res.dbTX
    IN /\ transactionsTable' = IF ok THEN transactionsTable \cup dbTX.rows ELSE transactionsTable
       /\ publicTxns' = IF ok THEN publicTxns \o dbTX.publicTxns ELSE publicTxns
       /\ txCache' = IF ok
                     THEN txCache \cup UNION {postCommitHook(dbTX.postCommit[h]) :
                                                 h \in DOMAIN dbTX.postCommit}
                     ELSE txCache
       /\ nextTxID' = IF res.err = "resolve" THEN nextTxID ELSE nextTxID + Len(inputs)
       /\ lastSubmit' = [op |-> op,
                         ids |-> IF res.err = "resolve" THEN <<>> ELSE idsOfTxs(resolved(inputs)),
                         types |-> [i \in DOMAIN inputs |-> inputs[i].type],
                         err |-> IF res.err # "none" THEN res.err
                                 ELSE IF commitOk THEN "none" ELSE "commit"]

\* sendTransactionsNewDBTX and prepareTransactionsNewDBTX
sendTransactionsNewDBTX(inputs, submitMode, fail) ==
    /\ nextTxID + Len(inputs) - 1 <= MaxTxIds
    /\ Transaction("send", inputs, processNewTransactions(NewDBTX, inputs, submitMode, fail),
                   fail # "commit")

\* the private transaction manager calls UpsertInternalPrivateTxsFinalizeIDs in a
\* database transaction of its own, for transactions that
\* PrepareInternalPrivateTransaction made: private, each with an idempotency key
upsertInternalPrivateTxs(inputs, fail) ==
    /\ nextTxID + Len(inputs) - 1 <= MaxTxIds
    /\ \A i \in DOMAIN inputs : inputs[i].type = "private" /\ inputs[i].key # NoKey
    /\ Transaction("upsert", inputs,
                   UpsertInternalPrivateTxsFinalizeIDs(NewDBTX, inputs, fail # "insert",
                                                       fail # "lookup"),
                   fail # "commit")

SubInit ==
    /\ transactionsTable = {}
    /\ publicTxns = <<>>
    /\ txCache = {}
    /\ nextTxID = 1
    /\ lastSubmit = NoSubmit

(***************************************************************************)
(* FinalizeTransactions of the transaction manager: the receipts.  The     *)
(* function is not in the source; it is modelled from the specification    *)
(* and from its tests in txmgr/transaction_submission.go.                  *)
(***************************************************************************)
ReceiptTxs == 1..2
ReceiptTypes ==
    {"RT_Success", "RT_FailedWithMessage", "RT_FailedOnChainWithRevertData", "ReceiptType(42)"}
FailureMessages == {"", "not empty"}

\* components.ReceiptInput
ReceiptInputs == [tx : ReceiptTxs, type : ReceiptTypes, failureMessage : FailureMessages]
ReceiptBatches == UNION {[1..n -> ReceiptInputs] : n \in 0..MaxReceipts}

\* the validation that lets a success receipt carry a failure message
validReceiptAnyMessage(ri) ==
    ri.type \in {"RT_Success", "RT_FailedWithMessage", "RT_FailedOnChainWithRevertData"}

\* the validation of one receipt (error PD012213 when it fails)
validReceipt(ri) ==
    IF ri.type = "RT_Success" THEN ri.failureMessage = ""
    ELSE IF ri.type = "RT_FailedWithMessage" THEN ri.failureMessage # ""
    ELSE IF ri.type = "RT_FailedOnChainWithRevertData" THEN ri.failureMessage = ""
    ELSE FALSE

\* the row of transaction_receipts for a receipt: a receipt with revert data
\* gets the message calculated from it (PD012214 when there is none)
receiptRow(ri) ==
    [tx |-> ri.tx,
     success |-> ri.type = "RT_Success",
     failureMessage |-> IF ri.type = "RT_FailedOnChainWithRevertData" /\ ri.failureMessage = ""
                        THEN "PD012214" ELSE ri.failureMessage]

\* what the caller said of each receipt, without the transaction id
receiptKinds(batch) ==
    [i \in DOMAIN batch |-> [type |-> batch[i].type, failureMessage |-> batch[i].failureMessage]]

NoFinalize == [kinds |-> <<>>, err |-> "none"]

\* FinalizeTransactions: every receipt is validated before the one insert
FinalizeTransactions(batch, dbOk) ==
    LET valid == \A i \in DOMAIN batch : validReceipt(batch[i])
        err == IF ~valid THEN "PD012213"
               ELSE IF batch # <<>> /\ ~dbOk THEN "pop" ELSE "none"
    IN /\ receipts' = IF err = "none"
                      THEN receipts \cup {receiptRow(batch[i]) : i \in DOMAIN batch}
                      ELSE receipts
       /\ lastFinalize' = [kinds |-> receiptKinds(batch), err |-> err]

RcInit ==
    /\ receipts = {}
    /\ lastFinalize = NoFinalize

(***************************************************************************)
(* The zeto domain: the selection of input coins (part_005, prepareInputs) *)
(* and Assemble of the lock and transferLocked handlers                    *)
(* (handler_transferLocked.go).  A coin is its amount and whether it is    *)
(* locked; its id and its .created timestamp are its place in the store.   *)
(* Amounts are math/big integers; remainder.Uint64() keeps the low bits,   *)
(* with a width that is scaled down here.                                  *)
(***************************************************************************)
MAX_INPUT_COUNT == 10
QueryLimit == 10
Uint64Modulus == 8

CoinAmounts == {1, 2}
LockCoinAmounts == {1, 9}
TransferAmounts == {3, 12}
LockAmounts == {1, 2, 3}

\* params []*types.TransferParamEntry: the amount of each
TransferParams == UNION {[1..n -> TransferAmounts] : n \in 1..2}
LockedTransferParams == UNION {[1..n -> LockCoinAmounts] : n \in 1..2}
\* TransferLockedParams.LockedInputs: ids, 0 for a nil or zero id
LockedInputs == UNION {[1..n -> 0..MaxLockCoins] : n \in 1..2}

RECURSIVE SumSeq(_)
SumSeq(s) == IF s = <<>> THEN 0 ELSE Head(s) + SumSeq(Tail(s))

amountsOf(store, refs) == [i \in DOMAIN refs |-> store[refs[i]].amount]

\* a return of prepareInputs with an error: nil, nil, nil, nil, err
NilSelection(err) ==
    [err |-> err, coins |-> <<>>, stateRefs |-> <<>>, total |-> 0, remainder |-> 0,
     available |-> 0]

\* the error of prepareInputs that always prints available=0
insufficientFundsZero(total) == NilSelection("insufficient funds")

\* fmt.Errorf("insufficient funds (available=%s)", total.Text(10))
insufficientFunds(total) ==
    [NilSelection("insufficient funds") EXCEPT !.available = total]

\* findAvailableStates with the query of prepareInputs: the coins of the
\* sender sorted by .created, after lastStateTimestamp when it is set, at
\* most Limit of them
findAvailableCoins(store, lastStateTimestamp) ==
    LET after == SelectSeq([i \in DOMAIN store |-> i],
                           LAMBDA i : lastStateTimestamp > 0 => i > lastStateTimestamp)
    IN SubSeq(after, 1, IF Len(after) < QueryLimit THEN Len(after) ELSE QueryLimit)

\* the loops of prepareInputs: states is the rest of the page being walked.
\* total.Sub(total, expectedTotal) stores the difference in total and returns
\* total itself, so the total and the remainder returned are one number.
RECURSIVE selectCoins(_, _, _, _, _, _)
selectCoins(store, expectedTotal, states, lastStateTimestamp, stateRefs, total) ==
    IF states = <<>>
    THEN LET next == findAvailableCoins(store, lastStateTimestamp)
         IN IF next = <<>> THEN insufficientFunds(total)
            ELSE selectCoins(store, expectedTotal, next, lastStateTimestamp, stateRefs, total)
    ELSE LET state == Head(states)
             sum == total + store[state].amount
             refs == Append(stateRefs, state)
         IN IF sum >= expectedTotal
            THEN LET remainder == sum - expectedTotal
                 IN [err |-> "none", coins |-> amountsOf(store, refs), stateRefs |-> refs,
                     total |-> remainder, remainder |-> remainder, available |-> 0]
            ELSE IF Len(refs) >= MAX_INPUT_COUNT
            THEN NilSelection("could not find enough coins")
            ELSE selectCoins(store, expectedTotal, Tail(states), state, refs, sum)

\* prepareInputs: what it returns
prepareInputs(store, params, queryOk, coinsOk) ==
    IF ~queryOk THEN NilSelection("failed to query the state store")
    ELSE IF ~coinsOk /\ store # <<>> THEN NilSelection("coin is invalid")
    ELSE selectCoins(store, SumSeq(params), <<>>, 0, <<>>, 0)

NoSelection == [op |-> "none", expected |-> 0, queryOk |-> TRUE, coinsOk |-> TRUE,
                res |-> NilSelection("none")]
NoAssembly == [handler |-> "none", err |-> "none", requested |-> 0,
               inputs |-> <<>>, outputs |-> <<>>]

\* a coin is stored for the sender
mint(amount, locked, limit) ==
    /\ Len(coinStore) < limit
    /\ coinStore' = Append(coinStore, [amount |-> amount, locked |-> locked])
    /\ selection' = NoSelection
    /\ assembled' = NoAssembly

\* a call of prepareInputs
callPrepareInputs(params, queryOk, coinsOk) ==
    /\ selection' = [op |-> "prepareInputs", expected |-> SumSeq(params),
                     queryOk |-> queryOk, coinsOk |-> coinsOk,
                     res |-> prepareInputs(coinStore, params, queryOk, coinsOk)]
    /\ assembled' = NoAssembly
    /\ UNCHANGED coinStore

\* buildInputsForExpectedTotal: the selection over the coins of the sender
\* that are locked, or that are not
buildInputsForExpectedTotal(store, expectedTotal, locked) ==
    LET ids == SelectSeq([i \in DOMAIN store |-> i], LAMBDA i : store[i].locked = locked)
        res == selectCoins([i \in DOMAIN ids |-> store[ids[i]]], expectedTotal, <<>>, 0, <<>>, 0)
    IN [res EXCEPT !.stateRefs = [k \in DOMAIN res.stateRefs |-> ids[res.stateRefs[k]]]]

\* tktypes.Uint64ToUint256(remainder.Uint64())
Uint64(n) == n % Uint64Modulus

output(amount, kind) == [amount |-> amount, kind |-> kind]

\* lockHandler.Assemble
lockAssemble(amount, fail) ==
    LET sel == buildInputsForExpectedTotal(coinStore, amount, FALSE)
        remainderOutputs == IF sel.remainder > 0
                            THEN <<output(Uint64(sel.remainder), "remainder")>> ELSE <<>>
        err == IF fail = "verifier" THEN "MsgErrorResolveVerifier"
               ELSE IF sel.err # "none" THEN "MsgErrorPrepTxInputs"
               ELSE IF fail = "outputs" THEN "MsgErrorPrepTxOutputs"
               ELSE IF fail = "format" THEN "MsgErrorFormatProvingReq"
               ELSE "none"
    IN /\ assembled' = [handler |-> "lock", err |-> err, requested |-> amount,
                        inputs |-> IF err = "none" THEN sel.coins ELSE <<>>,
                        outputs |-> IF err = "none"
                                    THEN remainderOutputs \o <<output(amount, "locked")>>
                                    ELSE <<>>]
       /\ selection' = NoSelection
       /\ UNCHANGED coinStore

\* transferLockedHandler.loadCoins
loadCoins(store, ids) ==
    LET inputIDs == SelectSeq(ids, LAMBDA id : id # 0)
        inputStates == SelectSeq([i \in DOMAIN store |-> i],
                                 LAMBDA i : \E k \in DOMAIN inputIDs : inputIDs[k] = i)
    IN IF Len(inputStates) # Len(inputIDs)
       THEN [err |-> "MsgFailedToQueryStatesById", coins |-> <<>>, stateRefs |-> <<>>]
       ELSE IF \E k \in DOMAIN inputStates : ~store[inputStates[k]].locked
       THEN [err |-> "MsgErrorInputNotLocked", coins |-> <<>>, stateRefs |-> <<>>]
       ELSE [err |-> "none", coins |-> amountsOf(store, inputStates),
             stateRefs |-> inputStates]

\* transferLockedHandler.Assemble
transferLockedAssemble(lockedInputs, transfers, fail) ==
    LET loaded == loadCoins(coinStore, lockedInputs)
        inputTotal == SumSeq(loaded.coins)
        transferTotal == SumSeq(transfers)
        remainder == inputTotal - transferTotal
        transferOutputs == [i \in DOMAIN transfers |-> output(transfers[i], "transfer")]
        remainderOutputs == IF remainder > 0 THEN <<output(remainder, "remainder")>> ELSE <<>>
        err == IF fail = "verifier" THEN "MsgErrorResolveVerifier"
               ELSE IF loaded.err # "none" THEN "MsgErrorPrepTxInputs"
               ELSE IF inputTotal < transferTotal THEN "MsgErrorInsufficientInputAmount"
               ELSE IF fail = "outputs" THEN "MsgErrorPrepTxOutputs"
               ELSE IF fail = "format" THEN "MsgErrorFormatProvingReq"
               ELSE "none"
    IN /\ assembled' = [handler |-> "transferLocked", err |-> err, requested |-> transferTotal,
                        inputs |-> IF err = "none" THEN loaded.coins ELSE <<>>,
                        outputs |-> IF err = "none" THEN transferOutputs \o remainderOutputs
                                    ELSE <<>>]
       /\ selection' = NoSelection
       /\ UNCHANGED coinStore

ZetoInit ==
    /\ coinStore = <<>>
    /\ selection = NoSelection
    /\ assembled = NoAssembly

(***************************************************************************)
(* The callers of a domain context.  Every function of the context takes   *)
(* dc.stateLock on entry and releases it (deferred) when it returns; the   *)
(* doFlush goroutine and its callback run without it.                      *)
(***************************************************************************)
DCOps == {"InitiateFlush", "Reset", "ClearTransactions", "UpsertStates", "StateLocksByTransaction"}

IdleCall == [pc |-> "idle", op |-> "none", done |-> FALSE]

MutexUpserts == [id : {1}, createdBy : {<<>>}]

\* StateLocksByTransaction: the locks of the context as they are now, each with
\* its state (the caller groups them by lock.tx)
StateLocksByTransaction ==
    /\ ret' = Ret("StateLocksByTransaction", "none",
                  [i \in DOMAIN txLocks |-> [id |-> txLocks[i].state, locks |-> <<txLocks[i]>>]],
                  NoQuery)
    /\ UNCHANGED dcVars_noRet

held(k, op) == dcCalls[k].pc = "held" /\ dcCalls[k].op = op /\ stateLock = k

\* a caller enters a function of the context
dcCall(k, op) ==
    /\ dcCalls[k].pc = "idle"
    /\ dcCalls' = [dcCalls EXCEPT ![k] = [pc |-> "lock", op |-> op, done |-> FALSE]]
    /\ UNCHANGED <<stateLock, dcVars, ssVars>>

\* dc.stateLock.Lock()
stateLockLock(k) ==
    /\ dcCalls[k].pc = "lock"
    /\ stateLock = 0
    /\ stateLock' = k
    /\ dcCalls' = [dcCalls EXCEPT ![k].pc = "held"]
    /\ UNCHANGED <<dcVars, ssVars>>

\* the ctx of the caller is cancelled while it is inside the call
ctxCancel(k) ==
    /\ dcCalls[k].pc \in {"lock", "held"}
    /\ ~dcCalls[k].done
    /\ dcCalls' = [dcCalls EXCEPT ![k].done = TRUE]
    /\ UNCHANGED <<stateLock, dcVars, ssVars>>

\* the mutant of unlockReturn that returns with the lock held
returnLocked(k) ==
    /\ stateLock' = stateLock
    /\ dcCalls' = [dcCalls EXCEPT ![k] = IdleCall]

\* defer dc.stateLock.Unlock(), and the return
unlockReturn(k) ==
    /\ stateLock' = 0
    /\ dcCalls' = [dcCalls EXCEPT ![k] = IdleCall]

lockedInitiateFlush(k) ==
    /\ held(k, "InitiateFlush")
    /\ InitiateFlush(dcCalls[k].done)
    /\ unlockReturn(k)
    /\ UNCHANGED ssVars

lockedReset(k) ==
    /\ held(k, "Reset")
    /\ Reset(dcCalls[k].done)
    /\ unlockReturn(k)
    /\ UNCHANGED ssVars

lockedClearTransactions(k) ==
    /\ held(k, "ClearTransactions")
    /\ \E t \in TxIds : ClearTransactions({t})
    /\ unlockReturn(k)
    /\ UNCHANGED ssVars

lockedUpsertStates(k) ==
    /\ held(k, "UpsertStates")
    /\ \E u \in MutexUpserts : UpsertStates(<<u>>)
    /\ unlockReturn(k)
    /\ UNCHANGED ssVars

lockedStateLocksByTransaction(k) ==
    /\ held(k, "StateLocksByTransaction")
    /\ StateLocksByTransaction
    /\ unlockReturn(k)
    /\ UNCHANGED ssVars

\* the doFlush goroutine: it takes no lock
unlockedDoFlush(c, ok) == doFlush(c, ok) /\ UNCHANGED <<ssVars, muVars>>

unlockedDoFlushCallback(c) == doFlushCallback(c) /\ UNCHANGED <<ssVars, muVars>>

MuInit ==
    /\ stateLock = 0
    /\ dcCalls = [k \in Callers |-> IdleCall]

Init == DCInit /\ PeerInit /\ TxInit /\ TMInit /\ RxInit /\ IFInit /\ SubInit /\ RcInit /\ ZetoInit /\ MuInit

\* the overlay queries and mutations of a context by one transaction, with the
\* states of the database being confirmed under it
FindUpserts == [id : StateIds, createdBy : {<<>>, <<1>>}]
FindLocks == [type : {"spend"}, tx : {1}, state : StateIds]

FindNext ==
    \/ /\ UNCHANGED <<ssVars, peerVars, txVars, tmVars, rxVars, ifVars, subVars, rcVars, zetoVars, muVars>>
       /\ \E u \in FindUpserts : UpsertStates(<<u>>)
    \/ /\ UNCHANGED <<ssVars, peerVars, txVars, tmVars, rxVars, ifVars, subVars, rcVars, zetoVars, muVars>>
       /\ \E l \in FindLocks : AddStateLocks(<<l>>)
    \/ /\ UNCHANGED <<ssVars, peerVars, txVars, tmVars, rxVars, ifVars, subVars, rcVars, zetoVars, muVars>>
       /\ ClearTransactions({1})
    \/ /\ UNCHANGED <<ssVars, peerVars, txVars, tmVars, rxVars, ifVars, subVars, rcVars, zetoVars, muVars>>
       /\ \E q \in Queries : FindAvailableStates(q)
    \/ /\ UNCHANGED <<ssVars, peerVars, txVars, tmVars, rxVars, ifVars, subVars, rcVars, zetoVars, muVars>>
       /\ \E s \in StateIds : StateConfirmed(s)

SpecFind == Init /\ [][FindNext]_vars

(***************************************************************************)
(* C1.  FindAvailableStates against the overlay.                           *)
(***************************************************************************)
idsOf(states) == [i \in DOMAIN states |-> states[i].id]

spendLocked(s) == \E i \in DOMAIN txLocks : txLocks[i].state = s /\ txLocks[i].type = "spend"

durableMatching(q) ==
    {s \in StateIds : dbStatus[s] = "available" /\ SchemaOf(s) = q.schema /\ EvalQuery(q, s)}

creatingMatching(q) ==
    {s \in StateIds : creatingStates[s].present /\ SchemaOf(s) = q.schema /\ EvalQuery(q, s)}

\* r lists, without repeats and in the order of the query's sort, the first
\* states of U up to the query limit
IsSortedLimitOf(r, U, q) ==
    /\ Range(r) \subseteq U
    /\ \A i, j \in DOMAIN r : i < j => LabelLess(r[i], r[j])
    /\ Len(r) = IF q.limit # NoLimit /\ Cardinality(U) > q.limit
                THEN q.limit ELSE Cardinality(U)
    /\ \A s \in U \ Range(r) : \A i \in DOMAIN r : LabelLess(r[i], s)

findReturned == ret.op = "FindAvailableStates" /\ ret.err = "none"

\* C1 as stated: FindAvailableStates returns the durable states matching the
\* schema and query minus the spend-locked ones, united with every state of the
\* creating map of that schema matching the query, de-duplicated, sorted and
\* truncated to the limit.
C1_FindAsStated ==
    findReturned =>
        IsSortedLimitOf(idsOf(ret.states),
            {s \in durableMatching(ret.q) : ~spendLocked(s)} \cup creatingMatching(ret.q),
            ret.q)

\* C1 amended: the same, with the states of the creating map that are
\* spend-locked in the context left out as well.
C1_FindAvailable ==
    findReturned =>
        IsSortedLimitOf(idsOf(ret.states),
            {s \in durableMatching(ret.q) \cup creatingMatching(ret.q) : ~spendLocked(s)},
            ret.q)

\* a find that met a spend-locked state of the creating map matching the query,
\* a durable state and an overlay state together, and the limit
C1_Witness ==
    /\ findReturned
    /\ \E s \in creatingMatching(ret.q) : spendLocked(s)
    /\ \E s \in Range(idsOf(ret.states)) : dbStatus[s] = "available"
    /\ ret.q.limit # NoLimit /\ Len(ret.states) = ret.q.limit

(***************************************************************************)
(* A context that is flushed and reset while its overlay is written.       *)
(***************************************************************************)
FlushUpserts == {u \in FindUpserts : u.id <= 2 /\ u.createdBy = <<>>}

FlushNext ==
    \/ /\ UNCHANGED <<ssVars, peerVars, txVars, tmVars, rxVars, ifVars, subVars, rcVars, zetoVars, muVars>>
       /\ \E u \in FlushUpserts : UpsertStates(<<u>>)
    \/ /\ UNCHANGED <<ssVars, peerVars, txVars, tmVars, rxVars, ifVars, subVars, rcVars, zetoVars, muVars>>
       /\ \E cancelled \in BOOLEAN : InitiateFlush(cancelled)
    \/ /\ UNCHANGED <<ssVars, peerVars, txVars, tmVars, rxVars, ifVars, subVars, rcVars, zetoVars, muVars>>
       /\ \E c \in FlushSlots, ok \in BOOLEAN : doFlush(c, ok)
    \/ /\ UNCHANGED <<ssVars, peerVars, txVars, tmVars, rxVars, ifVars, subVars, rcVars, zetoVars, muVars>>
       /\ \E c \in FlushSlots : doFlushCallback(c)
    \/ /\ UNCHANGED <<ssVars, peerVars, txVars, tmVars, rxVars, ifVars, subVars, rcVars, zetoVars, muVars>>
       /\ \E cancelled \in BOOLEAN : Reset(cancelled)

SpecFlush == Init /\ [][FlushNext]_vars

\* a goroutine that was started runs, and the writer answers every flush
FlushFairness ==
    \A c \in FlushSlots :
        /\ WF_vars(UNCHANGED <<ssVars, peerVars, txVars, tmVars, rxVars, ifVars, subVars, rcVars, zetoVars, muVars>> /\ \E ok \in BOOLEAN : doFlush(c, ok))
        /\ WF_vars(UNCHANGED <<ssVars, peerVars, txVars, tmVars, rxVars, ifVars, subVars, rcVars, zetoVars, muVars>> /\ doFlushCallback(c))

SpecFlushFair == SpecFlush /\ FlushFairness

(***************************************************************************)
(* C2.                                                                     *)
(***************************************************************************)
visibleToNewContext(s) == dbStatus[s] # "none"

\* the flush of slot c completes in this step, with a failure
flushFails(c) ==
    /\ flushCalls[c].pc = "flush"
    /\ flushCalls'[c].pc = "callback"
    /\ flushCalls'[c].status = "failed"

\* C2: when the callback of InitiateFlush reports success, every state that was
\* in the overlay at the seal is visible to a new context; a flush that will
\* report failure has made none of its states visible: it leaves the durable
\* store exactly as it was.
C2_FlushAtomic ==
    [][ /\ (ret'.op = "callback" /\ ret'.err = "nil")
            => \A s \in Range(idsOf(ret'.states)) : visibleToNewContext(s)'
        /\ (\E c \in FlushSlots : flushFails(c))
            => UNCHANGED <<dbStatus, dbNullifiers>>
        /\ (ret'.op = "callback" /\ ret'.err = "failed")
            => \E c \in FlushSlots : /\ flushCalls[c].pc = "callback"
                                     /\ flushCalls[c].status = "failed"
                                     /\ Range(idsOf(ret'.states)) = flushCalls[c].sealed
      ]_vars

C2_Witness ==
    /\ ret.op = "callback"
    /\ ret.err = "nil"
    /\ Len(ret.states) = 2

(***************************************************************************)
(* C8.                                                                     *)
(***************************************************************************)
\* the doFlush goroutines that have not yet invoked their callback
pendingCalls == {c \in FlushSlots : flushCalls[c].pc \in {"flush", "callback"}}

C8_Safety ==
    [][ /\ (ret'.op = "InitiateFlush" /\ ret'.err = "none")
            => \E c \in FlushSlots \ pendingCalls : pendingCalls' = pendingCalls \cup {c}
        /\ (ret'.op = "InitiateFlush" /\ ret'.err # "none")
            => pendingCalls' = pendingCalls
        /\ (ret'.op = "callback")
            => \E c \in pendingCalls :
                  /\ pendingCalls' = pendingCalls \ {c}
                  /\ flushCalls[c].status # "queued"
                  /\ ret'.err = (IF flushCalls[c].status = "failed" THEN "failed" ELSE "nil")
                  /\ (~flushCalls[c].hasOp => ret'.err = "nil")
        /\ (ret'.op \notin {"InitiateFlush", "callback"})
            => pendingCalls' = pendingCalls
      ]_vars

C8_Live ==
    \A c \in FlushSlots : (c \in pendingCalls) ~> (c \notin pendingCalls)

\* C8: an InitiateFlush that returns nil starts exactly one goroutine, which
\* invokes the callback once, later, with the result of the flush (nil when
\* there was nothing to flush), and the callback is invoked by nothing else; an
\* InitiateFlush that returns an error starts none.
C8_CallbackOnce == C8_Safety /\ C8_Live

C8_Witness ==
    /\ ret.op = "callback"
    /\ ret.err = "failed"

(***************************************************************************)
(* C9.                                                                     *)
(***************************************************************************)
\* the sealed write operations that were started and have not completed
inProgress == {c \in FlushSlots : flushCalls[c].hasOp /\ flushCalls[c].pc = "flush"}

ResetQueries == {q \in Queries : q.schema = 1 /\ q.minLabel = 0 /\ q.limit = NoLimit}
ResetUpserts == {u \in FindUpserts : u.id = 1 /\ u.createdBy = <<1>>}
ResetLocks == {l \in FindLocks : l.state = 1}
ResetNullifiers == {n \in Nullifiers : n.state = 1 /\ n.id = 1}

ResetNext ==
    \/ /\ UNCHANGED <<ssVars, peerVars, txVars, tmVars, rxVars, ifVars, subVars, rcVars, zetoVars, muVars>>
       /\ \E u \in ResetUpserts : UpsertStates(<<u>>)
    \/ /\ UNCHANGED <<ssVars, peerVars, txVars, tmVars, rxVars, ifVars, subVars, rcVars, zetoVars, muVars>>
       /\ \E n \in ResetNullifiers : UpsertNullifiers(<<n>>)
    \/ /\ UNCHANGED <<ssVars, peerVars, txVars, tmVars, rxVars, ifVars, subVars, rcVars, zetoVars, muVars>>
       /\ \E l \in ResetLocks : AddStateLocks(<<l>>)
    \/ /\ UNCHANGED <<ssVars, peerVars, txVars, tmVars, rxVars, ifVars, subVars, rcVars, zetoVars, muVars>>
       /\ \E q \in ResetQueries : FindAvailableStates(q)
    \/ /\ UNCHANGED <<ssVars, peerVars, txVars, tmVars, rxVars, ifVars, subVars, rcVars, zetoVars, muVars>>
       /\ \E q \in ResetQueries : FindAvailableNullifiers(q)
    \/ /\ UNCHANGED <<ssVars, peerVars, txVars, tmVars, rxVars, ifVars, subVars, rcVars, zetoVars, muVars>>
       /\ \E cancelled \in BOOLEAN : InitiateFlush(cancelled)
    \/ /\ UNCHANGED <<ssVars, peerVars, txVars, tmVars, rxVars, ifVars, subVars, rcVars, zetoVars, muVars>>
       /\ \E c \in FlushSlots, ok \in BOOLEAN : doFlush(c, ok)
    \/ /\ UNCHANGED <<ssVars, peerVars, txVars, tmVars, rxVars, ifVars, subVars, rcVars, zetoVars, muVars>>
       /\ \E c \in FlushSlots : doFlushCallback(c)
    \/ /\ UNCHANGED <<ssVars, peerVars, txVars, tmVars, rxVars, ifVars, subVars, rcVars, zetoVars, muVars>>
       /\ \E cancelled \in BOOLEAN : Reset(cancelled)
    \/ /\ UNCHANGED <<finder, peerVars, txVars, tmVars, rxVars, ifVars, subVars, rcVars, zetoVars, muVars>>
       /\ Close

SpecReset == Init /\ [][ResetNext]_vars

(***************************************************************************)
(* C7.                                                                     *)
(***************************************************************************)
OverlayOps == {"FindAvailableStates", "FindAvailableNullifiers", "UpsertStates",
               "UpsertNullifiers", "AddStateLocks"}

overlayIsEmpty ==
    /\ unFlushed.nil
    /\ flushing = 0
    /\ txLocks = <<>>
    /\ \A s \in StateIds : ~creatingStates[s].present

LockUpserts == [id : {1}, createdBy : {<<1>>, <<2>>}]
LockLocks == [type : {"create", "spend"}, tx : TxIds, state : {1}]

LocksNext ==
    \/ /\ UNCHANGED <<ssVars, peerVars, txVars, tmVars, rxVars, ifVars, subVars, rcVars, zetoVars, muVars>>
       /\ \E u \in LockUpserts : UpsertStates(<<u>>)
    \/ /\ UNCHANGED <<ssVars, peerVars, txVars, tmVars, rxVars, ifVars, subVars, rcVars, zetoVars, muVars>>
       /\ \E l \in LockLocks : AddStateLocks(<<l>>)
    \/ /\ UNCHANGED <<ssVars, peerVars, txVars, tmVars, rxVars, ifVars, subVars, rcVars, zetoVars, muVars>>
       /\ \E txs \in (SUBSET TxIds) \ {{}} : ClearTransactions(txs)
    \/ /\ UNCHANGED <<ssVars, peerVars, txVars, tmVars, rxVars, ifVars, subVars, rcVars, zetoVars, muVars>>
       /\ \E cancelled \in BOOLEAN : InitiateFlush(cancelled)
    \/ /\ UNCHANGED <<ssVars, peerVars, txVars, tmVars, rxVars, ifVars, subVars, rcVars, zetoVars, muVars>>
       /\ \E c \in FlushSlots, ok \in BOOLEAN : doFlush(c, ok)
    \/ /\ UNCHANGED <<ssVars, peerVars, txVars, tmVars, rxVars, ifVars, subVars, rcVars, zetoVars, muVars>>
       /\ \E c \in FlushSlots : doFlushCallback(c)
    \/ /\ UNCHANGED <<ssVars, peerVars, txVars, tmVars, rxVars, ifVars, subVars, rcVars, zetoVars, muVars>>
       /\ \E cancelled \in BOOLEAN : Reset(cancelled)

SpecLocks == Init /\ [][LocksNext]_vars

(***************************************************************************)
(* C10.                                                                    *)
(***************************************************************************)
\* C10: every create-lock in the lock list refers to a state in the creating map
C10_CreateLockHeld ==
    \A i \in DOMAIN txLocks :
        txLocks[i].type = "create" => creatingStates[txLocks[i].state].present

(***************************************************************************)
(* C11.  A state created by transaction 1 in a context where transaction 2 *)
(* only takes locks; the context is queried, flushed and reset.            *)
(***************************************************************************)
CreateUpserts == [id : {1}, createdBy : {<<1>>}]
CreateLocks == [type : {"create", "spend"}, tx : {2}, state : {1}]
CreateQueries == {q \in Queries : q.minLabel = 0 /\ q.limit = NoLimit}

CreateNext ==
    \/ /\ UNCHANGED <<ssVars, peerVars, txVars, tmVars, rxVars, ifVars, subVars, rcVars, zetoVars, muVars>>
       /\ \E u \in CreateUpserts : UpsertStates(<<u>>)
    \/ /\ UNCHANGED <<ssVars, peerVars, txVars, tmVars, rxVars, ifVars, subVars, rcVars, zetoVars, muVars>>
       /\ \E l \in CreateLocks : AddStateLocks(<<l>>)
    \/ /\ UNCHANGED <<ssVars, peerVars, txVars, tmVars, rxVars, ifVars, subVars, rcVars, zetoVars, muVars>>
       /\ \E txs \in (SUBSET TxIds) \ {{}} : ClearTransactions(txs)
    \/ /\ UNCHANGED <<ssVars, peerVars, txVars, tmVars, rxVars, ifVars, subVars, rcVars, zetoVars, muVars>>
       /\ \E q \in CreateQueries : FindAvailableStates(q)
    \/ /\ UNCHANGED <<ssVars, peerVars, txVars, tmVars, rxVars, ifVars, subVars, rcVars, zetoVars, muVars>>
       /\ \E cancelled \in BOOLEAN : InitiateFlush(cancelled)
    \/ /\ UNCHANGED <<ssVars, peerVars, txVars, tmVars, rxVars, ifVars, subVars, rcVars, zetoVars, muVars>>
       /\ \E c \in FlushSlots, ok \in BOOLEAN : doFlush(c, ok)
    \/ /\ UNCHANGED <<ssVars, peerVars, txVars, tmVars, rxVars, ifVars, subVars, rcVars, zetoVars, muVars>>
       /\ \E c \in FlushSlots : doFlushCallback(c)
    \/ /\ UNCHANGED <<ssVars, peerVars, txVars, tmVars, rxVars, ifVars, subVars, rcVars, zetoVars, muVars>>
       /\ \E cancelled \in BOOLEAN : Reset(cancelled)
    \/ /\ UNCHANGED <<ssVars, peerVars, txVars, tmVars, rxVars, ifVars, subVars, rcVars, zetoVars, muVars>>
       /\ StateConfirmed(1)

SpecCreate == Init /\ [][CreateNext]_vars

\* the transaction holds a create-lock on the state
createLockOf(t, s, locks) ==
    \E i \in DOMAIN locks :
        locks[i].type = "create" /\ locks[i].tx = t /\ locks[i].state = s

\* C11: a state that transaction 1 created with UpsertStates leaves the creating
\* map only in a Reset or in a ClearTransactions that clears transaction 1 (no
\* flush and no ClearTransactions of another transaction removes it), and while
\* it is in the map a find whose query it matches returns it unless it is
\* spend-locked.
C11_CreateDiscipline ==
    [][ /\ \A s \in StateIds :
              (creatingStates[s].present /\ ~creatingStates'[s].present)
                  => \/ ret'.op = "Reset"
                     \/ /\ ret'.op = "ClearTransactions"
                        /\ createLockOf(1, s, txLocks)
                        /\ ~createLockOf(1, s, txLocks')
        /\ (ret'.op = "FindAvailableStates" /\ ret'.err = "none")
              => \A s \in StateIds :
                    (/\ creatingStates'[s].present
                     /\ SchemaOf(s) = ret'.q.schema
                     /\ ~\E i \in DOMAIN txLocks' :
                            txLocks'[i].state = s /\ txLocks'[i].type = "spend")
                        => s \in {ret'.states[i].id : i \in DOMAIN ret'.states}
      ]_vars

(***************************************************************************)
(* C12.                                                                    *)
(***************************************************************************)
\* the states on which one of the transactions holds a create-lock
createLocked(txs, locks) ==
    {locks[i].state : i \in {j \in DOMAIN locks :
                                 locks[j].type = "create" /\ locks[j].tx \in txs}}

\* what ClearTransactions(txs) does to the locks and to the creating map, in the
\* words of C12: every lock of those transactions is gone, copies included, the
\* other locks stay as they were, and the states with a cleared create-lock have
\* left the creating map
clearsLocksAndCreating(txs) ==
    LET ofOthers(l) == l.tx \notin txs
    IN /\ \A i \in DOMAIN txLocks' : txLocks'[i].tx \notin txs
       /\ txLocks' = SelectSeq(txLocks, ofOthers)
       /\ \A s \in createLocked(txs, txLocks) : ~creatingStates'[s].present
       /\ \A s \in StateIds \ createLocked(txs, txLocks) :
              creatingStates'[s] = creatingStates[s]

\* C12 as stated: ClearTransactions drops every lock of the transactions and, for
\* every cleared create-lock, the entry of the state in the creating map and in
\* the unflushed overlay
C12_ClearAsStated ==
    [][ \A txs \in (SUBSET TxIds) \ {{}} :
            ClearTransactions(txs)
                => /\ clearsLocksAndCreating(txs)
                   /\ \A s \in createLocked(txs, txLocks) :
                          s \notin Range(unFlushed'.states)
      ]_vars

\* C12 amended: it drops every lock of the transactions and the creating-map
\* entry of every state with a cleared create-lock, and leaves the unflushed
\* writes and the flush in progress as they are
C12_ClearDrops ==
    [][ \A txs \in (SUBSET TxIds) \ {{}} :
            ClearTransactions(txs)
                => /\ clearsLocksAndCreating(txs)
                   /\ UNCHANGED <<unFlushed, flushing, flushCalls>>
      ]_vars

\* a ClearTransactions that cleared the create-lock of a state still in the
\* unflushed writes and left a lock of another transaction
C12_Witness ==
    /\ ret.op = "ClearTransactions"
    /\ ~creatingStates[1].present
    /\ 1 \in Range(unFlushed.states)
    /\ txLocks # <<>>

(***************************************************************************)
(* C13.  UpsertStates called with one or two upserts, between flushes.     *)
(***************************************************************************)
UpsertBatches ==
    {<<u>> : u \in FlushUpserts} \cup {<<u, v>> : u \in FlushUpserts, v \in FlushUpserts}

BatchNext ==
    \/ /\ UNCHANGED <<ssVars, peerVars, txVars, tmVars, rxVars, ifVars, subVars, rcVars, zetoVars, muVars>>
       /\ \E upserts \in UpsertBatches : UpsertStates(upserts)
    \/ /\ UNCHANGED <<ssVars, peerVars, txVars, tmVars, rxVars, ifVars, subVars, rcVars, zetoVars, muVars>>
       /\ InitiateFlush(FALSE)
    \/ /\ UNCHANGED <<ssVars, peerVars, txVars, tmVars, rxVars, ifVars, subVars, rcVars, zetoVars, muVars>>
       /\ \E c \in FlushSlots, ok \in BOOLEAN : doFlush(c, ok)
    \/ /\ UNCHANGED <<ssVars, peerVars, txVars, tmVars, rxVars, ifVars, subVars, rcVars, zetoVars, muVars>>
       /\ \E c \in FlushSlots : doFlushCallback(c)
    \/ /\ UNCHANGED <<ssVars, peerVars, txVars, tmVars, rxVars, ifVars, subVars, rcVars, zetoVars, muVars>>
       /\ StateConfirmed(1)

SpecBatch == Init /\ [][BatchNext]_vars

noRepeat(list) == \A i, j \in DOMAIN list : i # j => list[i] # list[j]

\* C13: the unflushed write set holds at most one entry per state id, so does
\* every write operation handed to a flush, and the states of the UpsertStates
\* that ran last are in the unflushed write set
C13_OneEntryPerState ==
    /\ noRepeat(unFlushed.states)
    /\ \A c \in FlushSlots : noRepeat(flushCalls[c].states)
    /\ (ret.op = "UpsertStates" /\ ret.err = "none") => unFlushed.states # <<>>

(***************************************************************************)
(* C14, C15.  Nullifiers upserted for a state that transaction 1 creates,  *)
(* and for states that nobody created, between flushes.                    *)
(***************************************************************************)
NullifiersNext ==
    \/ /\ UNCHANGED <<ssVars, peerVars, txVars, tmVars, rxVars, ifVars, subVars, rcVars, zetoVars, muVars>>
       /\ \E u \in CreateUpserts : UpsertStates(<<u>>)
    \/ /\ UNCHANGED <<ssVars, peerVars, txVars, tmVars, rxVars, ifVars, subVars, rcVars, zetoVars, muVars>>
       /\ \E n \in {m \in Nullifiers : m.state <= 2} : UpsertNullifiers(<<n>>)
    \/ /\ UNCHANGED <<ssVars, peerVars, txVars, tmVars, rxVars, ifVars, subVars, rcVars, zetoVars, muVars>>
       /\ ClearTransactions({1})
    \/ /\ UNCHANGED <<ssVars, peerVars, txVars, tmVars, rxVars, ifVars, subVars, rcVars, zetoVars, muVars>>
       /\ InitiateFlush(FALSE)
    \/ /\ UNCHANGED <<ssVars, peerVars, txVars, tmVars, rxVars, ifVars, subVars, rcVars, zetoVars, muVars>>
       /\ \E c \in FlushSlots, ok \in BOOLEAN : doFlush(c, ok)
    \/ /\ UNCHANGED <<ssVars, peerVars, txVars, tmVars, rxVars, ifVars, subVars, rcVars, zetoVars, muVars>>
       /\ \E c \in FlushSlots : doFlushCallback(c)

SpecNullifiers == Init /\ [][NullifiersNext]_vars

\* C14: the nullifiers queued for flush, in the unflushed and in the flushing
\* write operation, hold at most one nullifier id per state id
C14_OneNullifierPerState ==
    \A a, b \in Range(unFlushedNullifiers) : a.state = b.state => a.id = b.id

FindRaceNext ==
    \/ /\ UNCHANGED <<peerVars, txVars, tmVars, rxVars, ifVars, subVars, rcVars, zetoVars, muVars>>
       /\ \E op \in FindOps, q \in ResetQueries : getUnFlushedStates(op, q)
    \/ /\ UNCHANGED <<peerVars, txVars, tmVars, rxVars, ifVars, subVars, rcVars, zetoVars, muVars>>
       /\ \E ok \in BOOLEAN : queryDB(ok)
    \/ /\ UNCHANGED <<peerVars, txVars, tmVars, rxVars, ifVars, subVars, rcVars, zetoVars, muVars>>
       /\ mergeAndReturn
    \/ /\ UNCHANGED <<ssVars, peerVars, txVars, tmVars, rxVars, ifVars, subVars, rcVars, zetoVars, muVars>>
       /\ \E u \in {v \in FindUpserts : v.id # 2 /\ v.createdBy = <<1>>} : UpsertStates(<<u>>)
    \/ /\ UNCHANGED <<ssVars, peerVars, txVars, tmVars, rxVars, ifVars, subVars, rcVars, zetoVars, muVars>>
       /\ \E n \in {m \in Nullifiers : m.id = 1 /\ m.state # 2} : UpsertNullifiers(<<n>>)
    \/ /\ UNCHANGED <<ssVars, peerVars, txVars, tmVars, rxVars, ifVars, subVars, rcVars, zetoVars, muVars>>
       /\ \E l \in {k \in Locks : k.tx = 2 /\ k.state # 2} : AddStateLocks(<<l>>)
    \/ /\ UNCHANGED <<ssVars, peerVars, txVars, tmVars, rxVars, ifVars, subVars, rcVars, zetoVars, muVars>>
       /\ \E t \in TxIds : ClearTransactions({t})
    \/ /\ UNCHANGED <<ssVars, peerVars, txVars, tmVars, rxVars, ifVars, subVars, rcVars, zetoVars, muVars>>
       /\ \E s \in {1, 3} : StateConfirmed(s)

SpecFindRace == Init /\ [][FindRaceNext]_vars

\* C16: every state that FindAvailableStates returns is durable and not
\* spend-locked in the context, or is in the creating map of the context, in the
\* state of the context in which the result is produced
C16_VisibleAsOfLastMutation ==
    (ret.op = "FindAvailableStates" /\ ret.err = "none")
        => \A s \in Range(idsOf(ret.states)) :
              \/ dbStatus[s] # "none" /\ ~spendLocked(s)
              \/ creatingStates[s].present

countOf(l, list) == Cardinality({k \in DOMAIN list : list[k] = l})

\* C17: a state returned by FindAvailableStates or FindAvailableNullifiers
\* carries the locks the context holds on its id when the result is produced:
\* each of them as often as it is in the lock list, and no lock of another state
C17_CarriesItsLocks ==
    (ret.op \in FindOps /\ ret.err = "none")
        => \A i \in DOMAIN ret.states :
              /\ \A k \in DOMAIN ret.states[i].locks :
                     ret.states[i].locks[k].state = ret.states[i].id
              /\ \A l \in {m \in Locks : m.state = ret.states[i].id} :
                     countOf(l, ret.states[i].locks) = countOf(l, txLocks)

\* a find for nullifiers returned a state with a lock while the context also holds
\* a lock on another state
C17_Witness ==
    /\ ret.op = "FindAvailableNullifiers"
    /\ ret.err = "none"
    /\ \E i \in DOMAIN ret.states :
          /\ Len(ret.states[i].locks) >= 1
          /\ \E k \in DOMAIN txLocks : txLocks[k].state # ret.states[i].id

(***************************************************************************)
(* C18.                                                                    *)
(***************************************************************************)
\* a find on the context in its next state returns durable states only
findsDurableOnly ==
    \A q \in CreateQueries :
        Range(idsOf(findAvailableStatesResult(q)')) \subseteq
            {s \in StateIds : dbStatus'[s] = "available"}

C19_ClosedFails ==
    [][ closed
            => /\ dcId \notin domainContexts
               /\ ret'.op \in OverlayOps \cup {"InitiateFlush"}
                     => /\ ret'.err = "closed"
                        /\ UNCHANGED dcVars_noRet
      ]_vars

(***************************************************************************)
(* C20.                                                                    *)
(***************************************************************************)
\* C20: when an operation has returned the error of a create-lock on a state
\* that is not in the creating map, the context requires a reset: the mutation
\* that follows on the context fails, unless it is a Reset
C20_CreateLockErrorFatal ==
    [][ (/\ ret.err = "lockCreateNotInContext"
         /\ ret'.op \in {"UpsertStates", "UpsertNullifiers", "AddStateLocks"})
            => ret'.err # "none"
      ]_vars

(***************************************************************************)
(* A peer that carries reliable and fire-and-forget messages while acks    *)
(* arrive and time passes.                                                 *)
(***************************************************************************)
scanStep == UNCHANGED <<dcVars, ssVars, txVars, tmVars, rxVars, ifVars, subVars, rcVars, zetoVars, muVars>> /\ reliableMessageScan
queryStep(ok) == UNCHANGED <<dcVars, ssVars, txVars, tmVars, rxVars, ifVars, subVars, rcVars, zetoVars, muVars>> /\ queryPage(ok)
sendStep(ok) == UNCHANGED <<dcVars, ssVars, txVars, tmVars, rxVars, ifVars, subVars, rcVars, zetoVars, muVars>> /\ sendReliable(ok)
afterScanStep == UNCHANGED <<dcVars, ssVars, txVars, tmVars, rxVars, ifVars, subVars, rcVars, zetoVars, muVars>> /\ \E idle \in BOOLEAN : afterScan(idle)
timerStep == UNCHANGED <<dcVars, ssVars, txVars, tmVars, rxVars, ifVars, subVars, rcVars, zetoVars, muVars>> /\ selectResendTimer
persistedStep == UNCHANGED <<dcVars, ssVars, txVars, tmVars, rxVars, ifVars, subVars, rcVars, zetoVars, muVars>> /\ selectPersistedMsgsAvailable
sendQueueStep == UNCHANGED <<dcVars, ssVars, txVars, tmVars, rxVars, ifVars, subVars, rcVars, zetoVars, muVars>> /\ \E ok \in BOOLEAN : selectSendQueue(ok)
tickStep == UNCHANGED <<dcVars, ssVars, txVars, tmVars, rxVars, ifVars, subVars, rcVars, zetoVars, muVars>> /\ Tick

PeerNext ==
    \/ scanStep
    \/ \E ok \in BOOLEAN : queryStep(ok)
    \/ \E ok \in BOOLEAN : sendStep(ok)
    \/ afterScanStep
    \/ timerStep
    \/ persistedStep
    \/ sendQueueStep
    \/ tickStep
    \/ /\ UNCHANGED <<dcVars, ssVars, txVars, tmVars, rxVars, ifVars, subVars, rcVars, zetoVars, muVars>>
       /\ \E bad \in BOOLEAN : SendReliable(bad)
    \/ /\ UNCHANGED <<dcVars, ssVars, txVars, tmVars, rxVars, ifVars, subVars, rcVars, zetoVars, muVars>>
       /\ queueFireAndForget
    \/ /\ UNCHANGED <<dcVars, ssVars, txVars, tmVars, rxVars, ifVars, subVars, rcVars, zetoVars, muVars>>
       /\ \E m \in MsgSeqs : AckReceived(m)

SpecPeer == Init /\ [][PeerNext]_vars

(***************************************************************************)
(* The same peer on a database and a transport that do not fail, with a    *)
(* sender goroutine that runs and a clock that advances.  A select with    *)
(* several ready cases takes each of them sooner or later.  New messages   *)
(* and acks are under no obligation to come.                               *)
(***************************************************************************)
PeerFairNext ==
    \/ scanStep
    \/ queryStep(TRUE)
    \/ sendStep(TRUE)
    \/ afterScanStep
    \/ timerStep
    \/ persistedStep
    \/ sendQueueStep
    \/ tickStep
    \/ /\ UNCHANGED <<dcVars, ssVars, txVars, tmVars, rxVars, ifVars, subVars, rcVars, zetoVars, muVars>>
       /\ \E bad \in BOOLEAN : SendReliable(bad)
    \/ /\ UNCHANGED <<dcVars, ssVars, txVars, tmVars, rxVars, ifVars, subVars, rcVars, zetoVars, muVars>>
       /\ queueFireAndForget
    \/ /\ UNCHANGED <<dcVars, ssVars, txVars, tmVars, rxVars, ifVars, subVars, rcVars, zetoVars, muVars>>
       /\ \E m \in MsgSeqs : AckReceived(m)

PeerFairness ==
    /\ WF_vars(scanStep)
    /\ WF_vars(queryStep(TRUE))
    /\ WF_vars(sendStep(TRUE))
    /\ WF_vars(afterScanStep)
    /\ SF_vars(timerStep)
    /\ SF_vars(persistedStep)
    /\ SF_vars(sendQueueStep)
    /\ WF_vars(tickStep)

SpecPeerFair == Init /\ [][PeerFairNext]_vars /\ PeerFairness

(***************************************************************************)
(* C3.                                                                     *)
(***************************************************************************)
\* C3 as stated: a message that has an ack row is never transmitted
C3_NoSendAfterAckAsStated ==
    [][ \A m \in MsgSeqs : reliableMsgs[m].acked => wire' # m ]_vars

\* C3: no page queried by the scan contains a message that has an ack row, and
\* a message is only transmitted from the page queried last; so once the ack row
\* exists the message is transmitted at most once more, from a page that was
\* queried before the ack was written.
C3_NoSendAfterAck ==
    /\ [][ /\ (sender.pc = "query" /\ sender'.pc = "send")
               => \A i \in DOMAIN sender'.page : ~reliableMsgs[sender'.page[i]].acked
           /\ \A m \in MsgSeqs : wire' = m => m \in Range(sender.msgsToSend)
         ]_vars
    /\ [](\A m \in MsgSeqs : reliableMsgs[m].sentAfterAck <= 1)
    /\ [](\A i \in DOMAIN sender.msgsToSend : sender.msgsToSend[i] \in Range(sender.page))

C3_Witness ==
    \E m \in MsgSeqs : wire = m /\ reliableMsgs[m].acked /\ reliableMsgs[m].sentAfterAck = 1

(***************************************************************************)
(* C4.                                                                     *)
(***************************************************************************)
unackedOnActivePeer(m) ==
    /\ active
    /\ reliableMsgs[m].created
    /\ ~reliableMsgs[m].acked

\* C4: whenever a reliable message of an active peer has no ack row, it is
\* transmitted later (and so again and again), unless an ack row is written or
\* the peer stops being active
C4_Retransmitted ==
    \A m \in MsgSeqs :
        unackedOnActivePeer(m) ~> (wire = m \/ ~unackedOnActivePeer(m))

(***************************************************************************)
(* Submits that may be rejected, and whose database may fail.              *)
(***************************************************************************)
TxNext ==
    \/ /\ UNCHANGED <<dcVars, ssVars, peerVars, tmVars, rxVars, ifVars, subVars, rcVars, zetoVars, muVars>>
       /\ \E s \in Submits, batch \in Batches, valid \in BOOLEAN :
             resolveNewTransactions(s, batch, valid)
    \/ /\ UNCHANGED <<dcVars, ssVars, peerVars, tmVars, rxVars, ifVars, subVars, rcVars, zetoVars, muVars>>
       /\ \E s \in Submits, dbOk \in BOOLEAN : insertTransactions(s, dbOk)
    \/ /\ UNCHANGED <<dcVars, ssVars, peerVars, tmVars, rxVars, ifVars, subVars, rcVars, zetoVars, muVars>>
       /\ \E s \in Submits, ok \in BOOLEAN : completeSubmit(s, ok)
    \/ /\ UNCHANGED <<dcVars, ssVars, peerVars, tmVars, rxVars, ifVars, subVars, rcVars, zetoVars, muVars>>
       /\ \E s \in Submits, lookupOk \in BOOLEAN : checkIdempotencyKeys(s, lookupOk)

SpecTx == Init /\ [][TxNext]_vars

(***************************************************************************)
(* C5.                                                                     *)
(***************************************************************************)
done(s) == submits[s].pc = "done"

madeNoRow(s) == \A r \in transactionRows : r \notin rowsOf(s, submits[s].txs)

\* the conflict response that names the existing transaction of every key of
\* the submit that has one
namesExisting(s) ==
    /\ submits[s].result.kind = "idempotencyKeyClash"
    /\ submits[s].result.ids \subseteq committed(keysOf(submits[s].txs))
    /\ \A k \in submits[s].collided : \E r \in submits[s].result.ids : r.key = k

\* C5 as stated: every submit with a key of a committed transaction is answered
\* with the conflict
C5_ConflictAsStated ==
    \A s \in Submits :
        (done(s) /\ submits[s].collided # {}) => (madeNoRow(s) /\ namesExisting(s))

\* C5: a submit with a key of a committed transaction creates no row.  If it is
\* rejected before the insert it is answered with that rejection; otherwise the
\* insert fails, and it is answered with the conflict naming the existing
\* transaction ids unless the lookup after the rollback fails, when it is
\* answered with the insert error.  A submit whose lookup finds no transaction
\* with its keys is answered with the insert error.
C5_Conflict ==
    \A s \in Submits :
        /\ (done(s) /\ submits[s].collided # {}) =>
              /\ madeNoRow(s)
              /\ CASE submits[s].origErr = "none" -> submits[s].result.kind = "invalid"
                   [] submits[s].lookup = "failed" ->
                          submits[s].result = [kind |-> submits[s].origErr, ids |-> {}]
                   [] OTHER -> namesExisting(s)
        /\ (done(s) /\ submits[s].lookup = "empty") =>
              submits[s].result = [kind |-> submits[s].origErr, ids |-> {}]

C5_Witness ==
    \E s \in Submits :
        /\ done(s)
        /\ submits[s].collided # {}
        /\ submits[s].lookup = "found"
        /\ namesExisting(s)

(***************************************************************************)
(* Valid submits that race, on a database that does not fail.              *)
(***************************************************************************)
\* a submit of one transaction
RaceBatches == {b \in Batches : Len(b) = 1}

RaceNext ==
    \/ /\ UNCHANGED <<dcVars, ssVars, peerVars, tmVars, rxVars, ifVars, subVars, rcVars, zetoVars, muVars>>
       /\ \E s \in Submits, batch \in RaceBatches : resolveNewTransactions(s, batch, TRUE)
    \/ /\ UNCHANGED <<dcVars, ssVars, peerVars, tmVars, rxVars, ifVars, subVars, rcVars, zetoVars, muVars>>
       /\ \E s \in Submits : insertTransactions(s, TRUE)
    \/ /\ UNCHANGED <<dcVars, ssVars, peerVars, tmVars, rxVars, ifVars, subVars, rcVars, zetoVars, muVars>>
       /\ \E s \in Submits : completeSubmit(s, TRUE)
    \/ /\ UNCHANGED <<dcVars, ssVars, peerVars, tmVars, rxVars, ifVars, subVars, rcVars, zetoVars, muVars>>
       /\ \E s \in Submits : checkIdempotencyKeys(s, TRUE)

SpecTxRace == Init /\ [][RaceNext]_vars

(***************************************************************************)
(* C6.                                                                     *)
(***************************************************************************)
\* both submits were in progress at the same time
raced(s, o) == submits[s].collided = {} /\ submits[o].collided = {}

\* the submits that have returned and carried the key
carried(k) == {s \in Submits : done(s) /\ k \in keysOf(submits[s].txs)}

\* C6: the table never holds two rows with one key; when two (or more) submits
\* that carry the same key have returned, exactly one row has the key, exactly
\* one of them succeeded, with the id of that row, and every other one received
\* the conflict naming that id.
C6_OneRow ==
    /\ \A r, q \in transactionRows : (r.key = q.key /\ r.key # NoKey) => r = q
    /\ \A k \in IdempotencyKeys :
          Cardinality(carried(k)) >= 2
          => \E r \in transactionRows :
                /\ r.key = k
                /\ \E w \in carried(k) :
                      /\ submits[w].result.kind = "ok"
                      /\ r \in submits[w].result.ids
                      /\ \A l \in carried(k) \ {w} :
                            /\ submits[l].result.kind = "idempotencyKeyClash"
                            /\ r \in submits[l].result.ids

C6_Witness ==
    \E s, o \in Submits :
        /\ s # o
        /\ done(s) /\ done(o)
        /\ raced(s, o)
        /\ submits[s].result.kind = "ok"
        /\ submits[o].result.kind = "idempotencyKeyClash"

(***************************************************************************)
(* The peers map: concurrent callers of getPeer, the senders of the peer   *)
(* objects, their quiesce windows and close.                               *)
(***************************************************************************)
\* the variables of the other parts of the model
tmFrame == UNCHANGED <<dcVars, ssVars, peerVars, txVars, rxVars, ifVars, subVars, rcVars, zetoVars, muVars>>

TMNext ==
    \/ tmFrame /\ (\E c \in Callers, kind \in CallKinds : getPeer(c, kind))
    \/ tmFrame /\ (\E c \in Callers, reg \in NodeTransports, ok \in BOOLEAN :
          getPeerConnect(c, reg, ok))
    \/ tmFrame /\ (\E c \in Callers : useOfPeer(c))
    \/ tmFrame /\ (\E p \in PeerIds : senderSendQueue(p))
    \/ tmFrame /\ (\E p \in PeerIds : senderPersistedMsgsAvailable(p))
    \/ tmFrame /\ (\E p \in PeerIds, quiesce \in BOOLEAN : senderReturn(p, quiesce))
    \/ tmFrame /\ (\E p \in PeerIds : deactivate(p))
    \/ tmFrame /\ (\E p \in PeerIds, reg \in NodeTransports, ok \in BOOLEAN :
          cleanupSendQueue(p, reg, ok))
    \/ tmFrame /\ (\E p \in PeerIds, reg \in NodeTransports, ok \in BOOLEAN :
          cleanupPersistedMsgsAvailable(p, reg, ok))
    \/ tmFrame /\ (\E p \in PeerIds : cleanupTimeout(p))
    \/ tmFrame /\ (\E p \in PeerIds : close(p))

SpecPeers == Init /\ [][TMNext]_vars

(***************************************************************************)
(* C21.                                                                    *)
(***************************************************************************)
\* the activations of the node that no DeactivateNode has followed
activeOnTransports == activations["grpc"] + activations["jms"]

firstMutual(details) ==
    IF \E i \in DOMAIN details : details[i] \in transportsByName
    THEN details[CHOOSE i \in DOMAIN details :
                    /\ details[i] \in transportsByName
                    /\ \A j \in 1..(i - 1) : details[j] \notin transportsByName]
    ELSE NoTransport

\* caller c is about to run startSender inside connectPeer
runsStartSender(c) ==
    /\ callers[c].pc = "connect"
    /\ sendingOf(callers[c].kind)
    /\ ~(peers # NoPeer /\ peerObjs[peers].senderStarted)

\* C22: when startSender runs with the transport details of the registry, it
\* calls ActivateNode on the first registered transport that is configured
\* locally, and it fails without calling any transport only when none is.
C22_FirstMutualTransport ==
    [][ \A c \in Callers :
           (runsStartSender(c) /\ callers'[c] # callers[c]) =>
              \A reg \in NodeTransports, ok \in BOOLEAN :
                 (reg.ok /\ getPeerConnect(c, reg, ok)) =>
                     LET t == firstMutual(reg.details)
                     IN IF t = NoTransport
                        THEN transportCall' = NoCall
                        ELSE transportCall' = ActivateNode(t, ok) ]_vars

(***************************************************************************)
(* C23.                                                                    *)
(***************************************************************************)
\* the page the query of reliableMessageScan returns in this state
queriedPage ==
    LET lower == IF sender.lastPageEnd # NoSeq THEN sender.lastPageEnd
                 ELSE IF ~sender.fullScan THEN lastDrainHWM ELSE NoSeq
    IN firstPage(unackedAfter(lower))

\* C23: a message with a permanent data error is never put on the transport;
\* a page that is processed writes, for each such message it was due to send,
\* an ack with the error; a message with an error ack keeps it, is in no page
\* queried afterwards and is never sent; a retryable error while the page is
\* processed writes nothing and puts the scan back at its start.
C23_DataErrorsAcked ==
    /\ [](sender.pc = "query" =>
            \A i \in DOMAIN queriedPage : ~reliableMsgs[queriedPage[i]].error)
    /\ [][ /\ \A m \in MsgSeqs : reliableMsgs[m].bad => wire' # m
           /\ \A m \in MsgSeqs :
                 reliableMsgs[m].error =>
                     /\ reliableMsgs'[m].error /\ reliableMsgs'[m].acked
                     /\ ~reliableMsgs'[m].sent
           /\ queryPage(TRUE) =>
                 \A i \in DOMAIN queriedPage :
                    LET m == queriedPage[i]
                    IN (eligible(m) /\ reliableMsgs[m].bad) =>
                           reliableMsgs'[m].error /\ reliableMsgs'[m].acked
           /\ queryPage(FALSE) =>
                 /\ reliableMsgs' = reliableMsgs
                 /\ sender' = retryScan ]_vars

\* a message with an error ack grew older than the resend interval, and the
\* full scan that followed has left it alone
C23_Witness ==
    \E m \in MsgSeqs :
        /\ reliableMsgs[m].error
        /\ reliableMsgs[m].age >= ReliableMessageResend
        /\ sender.pc = "select"
        /\ lastFullScan < ReliableMessageResend

(***************************************************************************)
(* The sender of the peer with the receive statistics it reads before it   *)
(* quiesces.                                                               *)
(***************************************************************************)
quiesceStep ==
    UNCHANGED <<dcVars, ssVars, txVars, tmVars, rxVars, ifVars, subVars, rcVars, zetoVars, muVars>> /\ afterScan(receiveIdle)
receiveStep == UNCHANGED <<dcVars, ssVars, txVars, tmVars, ifVars, subVars, rcVars, zetoVars, muVars>> /\ updateReceivedStats
clockStep ==
    /\ UNCHANGED <<dcVars, ssVars, txVars, tmVars, ifVars, subVars, rcVars, zetoVars, muVars>>
    /\ Tick
    /\ lastReceive' = OlderReceive(lastReceive)

QuiesceNext ==
    \/ scanStep
    \/ \E ok \in BOOLEAN : queryStep(ok)
    \/ \E ok \in BOOLEAN : sendStep(ok)
    \/ quiesceStep
    \/ timerStep
    \/ persistedStep
    \/ sendQueueStep
    \/ clockStep
    \/ receiveStep
    \/ /\ UNCHANGED <<dcVars, ssVars, txVars, tmVars, rxVars, ifVars, subVars, rcVars, zetoVars, muVars>>
       /\ \E bad \in BOOLEAN : SendReliable(bad)
    \/ /\ UNCHANGED <<dcVars, ssVars, txVars, tmVars, rxVars, ifVars, subVars, rcVars, zetoVars, muVars>>
       /\ queueFireAndForget
    \/ /\ UNCHANGED <<dcVars, ssVars, txVars, tmVars, rxVars, ifVars, subVars, rcVars, zetoVars, muVars>>
       /\ \E m \in MsgSeqs : AckReceived(m)

SpecQuiesce == Init /\ [][QuiesceNext]_vars

(***************************************************************************)
(* C24.                                                                    *)
(***************************************************************************)
\* the sender decides to quiesce in this step
quiesces == sender.pc # "quiesced" /\ sender'.pc = "quiesced"

\* C24 as stated: the sender quiesces only with an empty fire-and-forget
\* queue, the persistent queue drained and no receive within the timeout
C24_QuiesceAsStated ==
    [][ quiesces => /\ sendQueue = 0
                    /\ persistentMsgsDrained
                    /\ receiveIdle ]_vars

\* C24: the sender quiesces only after a wait that the resend timer ended,
\* when the scan that followed left the persistent queue marked as drained,
\* and when nothing was received within peerInactivityTimeout.
C24_QuiesceOnlyWhenIdle ==
    [][ quiesces => /\ sender.hitInactivityTimeout
                    /\ persistentMsgsDrained
                    /\ receiveIdle ]_vars

\* the peer quiesced after it had received a message, the timeout having
\* passed since
C24_Witness ==
    /\ sender.pc = "quiesced"
    /\ lastReceive > PeerInactivityTimeout

(***************************************************************************)
(* The same without failures of the database and of the transport, and     *)
(* with a sender and a clock that keep running.                            *)
(***************************************************************************)
QuiesceFairNext ==
    \/ scanStep
    \/ queryStep(TRUE)
    \/ sendStep(TRUE)
    \/ quiesceStep
    \/ timerStep
    \/ persistedStep
    \/ sendQueueStep
    \/ clockStep
    \/ receiveStep
    \/ /\ UNCHANGED <<dcVars, ssVars, txVars, tmVars, rxVars, ifVars, subVars, rcVars, zetoVars, muVars>>
       /\ \E bad \in BOOLEAN : SendReliable(bad)
    \/ /\ UNCHANGED <<dcVars, ssVars, txVars, tmVars, rxVars, ifVars, subVars, rcVars, zetoVars, muVars>>
       /\ queueFireAndForget
    \/ /\ UNCHANGED <<dcVars, ssVars, txVars, tmVars, rxVars, ifVars, subVars, rcVars, zetoVars, muVars>>
       /\ \E m \in MsgSeqs : AckReceived(m)

QuiesceFairness ==
    /\ WF_vars(scanStep)
    /\ WF_vars(queryStep(TRUE))
    /\ WF_vars(sendStep(TRUE))
    /\ WF_vars(quiesceStep)
    /\ SF_vars(timerStep)
    /\ SF_vars(persistedStep)
    /\ SF_vars(sendQueueStep)
    /\ WF_vars(clockStep)

SpecQuiesceFair == Init /\ [][QuiesceFairNext]_vars /\ QuiesceFairness

(***************************************************************************)
(* C26.                                                                    *)
(***************************************************************************)
\* both queues of the peer are drained and nothing was received from it within
\* peerInactivityTimeout
peerIdle ==
    /\ sendQueue = 0
    /\ ~persistedMsgsAvailable
    /\ \A m \in MsgSeqs : reliableMsgs[m].created => reliableMsgs[m].acked
    /\ receiveIdle

\* C26: a peer that is idle from some point on eventually quiesces.
C26_IdlePeerQuiesces == <>[]peerIdle => <>(sender.pc = "quiesced")

(***************************************************************************)
(* C25.                                                                    *)
(***************************************************************************)
\* the message taken from the queue of p is on the queue of q in objs
requeued(p, objs, q) ==
    /\ q \notin {NoPeer, p}
    /\ objs[q].sendQueue = peerObjs[q].sendQueue + 1
\* the message taken from the queue of p is on no queue of objs
lost(p, objs) ==
    \A q \in PeerIds : objs[q].sendQueue <= peerObjs[q].sendQueue

\* the peers map holds a peer object whose sender runs
reopened(objs, q) == q # NoPeer /\ objs[q].status \in {"sender", "cleanup"}

ifFrame == UNCHANGED <<dcVars, ssVars, peerVars, txVars, tmVars, rxVars, subVars, rcVars, zetoVars, muVars>>

InFlightNext ==
    \/ ifFrame /\ UpdateTransaction
    \/ ifFrame /\ ProduceLatestInFlightStageContext
    \/ ifFrame /\ (\E i \in VersionIds, ok \in BOOLEAN : stageOutput(i, ok))
    \/ ifFrame /\ (\E i \in VersionIds, ok \in BOOLEAN : persistenceOutput(i, ok))
    \/ ifFrame /\ confirmed
    \/ ifFrame /\ persistenceTick

SpecInFlight == Init /\ [][InFlightNext]_vars

produceStep ==
    /\ UNCHANGED <<dcVars, ssVars, peerVars, txVars, tmVars, rxVars, subVars, rcVars, zetoVars, muVars>>
    /\ ProduceLatestInFlightStageContext
persistenceClock ==
    /\ UNCHANGED <<dcVars, ssVars, peerVars, txVars, tmVars, rxVars, subVars, rcVars, zetoVars, muVars>>
    /\ persistenceTick

\* the stage controller keeps being called and time passes
SpecInFlightFair ==
    Init /\ [][InFlightNext]_vars /\ WF_vars(produceStep) /\ WF_vars(persistenceClock)

(***************************************************************************)
(* C27.                                                                    *)
(***************************************************************************)
superseded(i) == i \in DOMAIN versions /\ i < Len(versions)
noContext(i) == versions[i].runningStageContext = NoContext

\* what C27 says of the updates: a step that changes the number of versions
\* adds one version at the end, with the next id, and a version only ever gets
\* its first running stage context at the Signing stage
updatesOpenOneVersion ==
    [][ /\ Len(versions') # Len(versions) =>
              /\ Len(versions') = Len(versions) + 1
              /\ versions'[Len(versions')].id = versions[Len(versions)].id + 1
              /\ \A i \in DOMAIN versions : versions'[i].id = versions[i].id
        /\ \A i \in DOMAIN versions :
              (noContext(i) /\ versions[i].stageDone = "none" /\ ~noContext(i)') =>
                  /\ versions'[i].runningStageContext.stage = "Signing"
                  /\ i = Len(versions') ]_vars

\* C27 as stated: the last version is the only current one, and every earlier
\* version is not current, cancelled and without a running stage context
C27_VersionsAsStated ==
    /\ updatesOpenOneVersion
    /\ [](\A i \in DOMAIN versions :
             /\ versions[i].id = i - 1
             /\ versions[i].current <=> i = Len(versions)
             /\ superseded(i) => versions[i].cancelled /\ noContext(i))

\* C27: each update adds one version whose id is one more than the highest;
\* the last version is the only current one; every earlier version is not
\* current and cancelled, and once it has no running stage context it never
\* gets one again; a version's first stage context is at the Signing stage.
C27_Versions ==
    /\ updatesOpenOneVersion
    /\ [](\A i \in DOMAIN versions :
             /\ versions[i].id = i - 1
             /\ versions[i].current <=> i = Len(versions)
             /\ superseded(i) => versions[i].cancelled)
    /\ [][ \A i \in DOMAIN versions :
              (superseded(i) /\ noContext(i)) => noContext(i)' ]_vars

\* two updates later the third version is at the Signing stage and the first
\* still has the running stage context it had when it was superseded
C27_Witness ==
    /\ Len(versions) = 3
    /\ GetCurrentVersion.runningStageContext.stage = "Signing"
    /\ versions[1].cancelled
    /\ ~noContext(1)

(***************************************************************************)
(* C28.                                                                    *)
(***************************************************************************)
\* the buffered stage outputs of version number i, none while it does not exist
buffered(i) == IF i \in DOMAIN versions THEN versions[i].bufferedStageOutputs ELSE <<>>
persistedOutput(i) == buffered(i) # <<>> /\ Head(buffered(i)).ok
supersededPending(i) == IF superseded(i) THEN buffered(i) # <<>> ELSE FALSE

\* C28: no sign and no submit is triggered for a superseded version; when the
\* stage controller finds the persisted output of a superseded version it
\* removes it and clears the running stage context of that version, whatever
\* the stage's own output was; the stage of the current version is marked as
\* errored only for an error of its own output; and with a stage controller
\* that keeps being called the buffered outputs of a superseded version drain.
C28_SupersededDiscarded ==
    /\ [][ /\ \A a \in stageAction' :
                 a.action \in {"sign", "submit"} => a.version = Len(versions')
           /\ ProduceLatestInFlightStageContext =>
                 \A i \in DOMAIN versions :
                    (superseded(i) /\ persistedOutput(i)) =>
                        /\ versions'[i].bufferedStageOutputs = <<>>
                        /\ noContext(i)'
           /\ (/\ Len(versions') = Len(versions)
               /\ ~GetCurrentVersion.runningStageContext.errored
               /\ GetCurrentVersion'.runningStageContext.errored) =>
                  /\ GetCurrentVersion.runningStageContext.output \in {"signErr", "submitErr"}
                  /\ persistedOutput(Len(versions)) ]_vars
    /\ [](\A i \in DOMAIN versions :
             (versions[i].current /\ noContext(i)) =>
                 ~versions[i].runningStageContext.errored)
    /\ \A i \in VersionIds : supersededPending(i) ~> (buffered(i) = <<>>)

\* the signature of the first version is persisted, and the version was
\* superseded before the stage controller saw the output
C28_Witness ==
    /\ superseded(1)
    /\ versions[1].runningStageContext.output = "signed"
    /\ persistedOutput(1)

(***************************************************************************)
(* C29.                                                                    *)
(***************************************************************************)
failedOutput(i) == buffered(i) # <<>> /\ ~Head(buffered(i)).ok

\* C29: for every version, current or superseded, a buffered output whose
\* write failed stays buffered, and no write is triggered for it, while
\* persistenceRetryTimeout has not passed; the call of the stage controller
\* that finds it after the timeout triggers the write again and removes it;
\* and with a stage controller that keeps being called it does leave the buffer.
C29_PersistenceRetry ==
    /\ [][ \A i \in DOMAIN versions :
              /\ (failedOutput(i) /\ ~retryDue(Head(versions[i].bufferedStageOutputs))) =>
                     /\ failedOutput(i)'
                     /\ trigger(i, "persist") \notin stageAction'
              /\ (/\ ProduceLatestInFlightStageContext
                  /\ failedOutput(i)
                  /\ retryDue(Head(versions[i].bufferedStageOutputs))) =>
                     /\ versions'[i].bufferedStageOutputs = <<>>
                     /\ trigger(i, "persist") \in stageAction' ]_vars
    /\ \A i \in VersionIds : failedOutput(i) ~> (buffered(i) = <<>>)

\* the failed write of a superseded version is due for its retry
C29_Witness ==
    /\ superseded(1)
    /\ failedOutput(1)
    /\ retryDue(Head(versions[1].bufferedStageOutputs))

(***************************************************************************)
(* C30.                                                                    *)
(***************************************************************************)
\* C30: the transaction can be removed only when it is confirmed or failed
\* and no version of it has a buffered stage output.
C30_RemovableWhenDrained ==
    CanBeRemoved =>
        /\ readyToExit
        /\ \A i \in DOMAIN versions : versions[i].bufferedStageOutputs = <<>>

(***************************************************************************)
(* The submits and upserts of the transaction manager, each in a database  *)
(* transaction of its own.                                                 *)
(***************************************************************************)
subFrame == UNCHANGED <<dcVars, ssVars, peerVars, txVars, tmVars, rxVars, ifVars, rcVars, zetoVars, muVars>>

SubmitNext ==
    \/ subFrame /\ (\E inputs \in TxInputs, submitMode \in SubmitModes, fail \in FailurePoints :
          sendTransactionsNewDBTX(inputs, submitMode, fail))
    \/ subFrame /\ (\E inputs \in TxInputs, fail \in {"none", "insert", "lookup", "commit"} :
          upsertInternalPrivateTxs(inputs, fail))

SpecSubmit == Init /\ [][SubmitNext]_vars

(***************************************************************************)
(* C31.                                                                    *)
(***************************************************************************)
\* the number of committed public transactions bound to a transaction id
boundTo(list, id) == Cardinality({i \in DOMAIN list : list[i] = id})
stored(table, id) == \E r \in table : r.id = id

\* C31: every committed row of type public has exactly one committed public
\* transaction bound to its id, every committed public transaction is bound
\* to a committed row of type public, a call that returns an error (from the
\* validation, the insert, the public write, the private transaction manager
\* or the commit) changes neither table, and a call that returns none has
\* committed the row of each of its transactions.
C31_RowAndPublicTogether ==
    /\ [](/\ \A r \in transactionsTable :
                boundTo(publicTxns, r.id) = (IF r.type = "public" THEN 1 ELSE 0)
          /\ \A i \in DOMAIN publicTxns : stored(transactionsTable, publicTxns[i]))
    /\ [][ lastSubmit'.op = "send" =>
              IF lastSubmit'.err # "none"
              THEN UNCHANGED <<transactionsTable, publicTxns>>
              ELSE \A i \in DOMAIN lastSubmit'.ids :
                      /\ ~stored(transactionsTable, lastSubmit'.ids[i])
                      /\ stored(transactionsTable', lastSubmit'.ids[i])
                      /\ boundTo(publicTxns', lastSubmit'.ids[i]) =
                            (IF lastSubmit'.types[i] = "public" THEN 1 ELSE 0) ]_vars

\* a submit with a public transaction has committed after an earlier one
\* was rolled back
C31_Witness ==
    /\ lastSubmit.op = "send"
    /\ lastSubmit.err = "none"
    /\ \E i \in DOMAIN lastSubmit.ids :
          /\ lastSubmit.types[i] = "public"
          /\ boundTo(publicTxns, lastSubmit.ids[i]) = 1
    /\ \E id \in TxIdSpace : id < nextTxID /\ ~stored(transactionsTable, id)

(***************************************************************************)
(* C32.                                                                    *)
(***************************************************************************)
\* C32: the cache only holds ids of committed rows; it changes only in a call
\* that commits, and then only when every transaction of the call was
\* inserted, by the ids of the call; a call that fails, is rolled back or
\* finds one of its idempotency keys already stored leaves it as it was.
C32_CacheFromPostCommit ==
    /\ [](\A id \in txCache : stored(transactionsTable, id))
    /\ [][ /\ lastSubmit'.err # "none" => txCache' = txCache
           /\ (\E i \in DOMAIN lastSubmit'.ids :
                  ~stored(transactionsTable', lastSubmit'.ids[i])) => txCache' = txCache
           /\ txCache' # txCache =>
                 /\ txCache' = txCache \cup {lastSubmit'.ids[i] : i \in DOMAIN lastSubmit'.ids}
                 /\ \A i \in DOMAIN lastSubmit'.ids :
                       ~stored(transactionsTable, lastSubmit'.ids[i]) ]_vars

\* an upsert has committed with one transaction inserted and one that found
\* its idempotency key stored, and the cache holds neither
C32_Witness ==
    /\ lastSubmit.op = "upsert"
    /\ lastSubmit.err = "none"
    /\ \E i, j \in DOMAIN lastSubmit.ids :
          /\ stored(transactionsTable, lastSubmit.ids[i])
          /\ ~stored(transactionsTable, lastSubmit.ids[j])
          /\ lastSubmit.ids[i] \notin txCache
    /\ txCache # {}

(***************************************************************************)
(* The calls of FinalizeTransactions.                                      *)
(***************************************************************************)
rcFrame == UNCHANGED <<dcVars, ssVars, peerVars, txVars, tmVars, rxVars, ifVars, subVars, zetoVars, muVars>>

ReceiptNext ==
    \/ rcFrame /\ (\E batch \in ReceiptBatches, dbOk \in BOOLEAN : FinalizeTransactions(batch, dbOk))

SpecReceipts == Init /\ [][ReceiptNext]_vars

(***************************************************************************)
(* C33.                                                                    *)
(***************************************************************************)
\* one of the four reasons of C33 to reject a receipt
rejectedKind(k) ==
    \/ k.type = "RT_Success" /\ k.failureMessage # ""
    \/ k.type = "RT_FailedWithMessage" /\ k.failureMessage = ""
    \/ k.type = "RT_FailedOnChainWithRevertData" /\ k.failureMessage # ""
    \/ k.type \notin {"RT_Success", "RT_FailedWithMessage", "RT_FailedOnChainWithRevertData"}

\* C33: every stored receipt records a success without a failure message or
\* a failure with one; a call of FinalizeTransactions in which a success
\* receipt carries a failure message, a failed-with-message receipt carries
\* none, a receipt with revert data carries a message or a receipt has an
\* unknown type returns error PD012213, and a call that returns an error
\* writes no receipt row.
C33_SuccessOrFailure ==
    /\ [](\A r \in receipts : r.success <=> r.failureMessage = "")
    /\ [][ /\ (\E i \in DOMAIN lastFinalize'.kinds : rejectedKind(lastFinalize'.kinds[i]))
                 => lastFinalize'.err = "PD012213"
           /\ lastFinalize'.err # "none" => receipts' = receipts ]_vars

\* a call with one valid receipt and one success receipt that carries a
\* failure message was rejected after receipts of both kinds were stored
C33_Witness ==
    /\ lastFinalize.err = "PD012213"
    /\ Len(lastFinalize.kinds) = 2
    /\ ~rejectedKind(lastFinalize.kinds[1])
    /\ lastFinalize.kinds[2] = [type |-> "RT_Success", failureMessage |-> "not empty"]
    /\ \E r, q \in receipts : r.success /\ ~q.success

(***************************************************************************)
(* The calls of prepareInputs over the coins of a sender.                  *)
(***************************************************************************)
zetoFrame == UNCHANGED <<dcVars, ssVars, peerVars, txVars, tmVars, rxVars, ifVars, subVars, rcVars, muVars>>

ZetoNext ==
    \/ zetoFrame /\ (\E amount \in CoinAmounts : mint(amount, FALSE, MaxCoins))
    \/ zetoFrame /\ (\E params \in TransferParams, queryOk \in BOOLEAN, coinsOk \in BOOLEAN :
          callPrepareInputs(params, queryOk, coinsOk))

SpecZeto == Init /\ [][ZetoNext]_vars

(***************************************************************************)
(* The calls of Assemble of the lock and transferLocked handlers.          *)
(***************************************************************************)
AssembleFailures == {"none", "verifier", "outputs", "format"}

AssembleNext ==
    \/ zetoFrame /\ (\E amount \in LockCoinAmounts, locked \in BOOLEAN :
          mint(amount, locked, MaxLockCoins))
    \/ zetoFrame /\ (\E amount \in LockAmounts, fail \in AssembleFailures :
          lockAssemble(amount, fail))
    \/ zetoFrame /\ (\E lockedInputs \in LockedInputs, transfers \in LockedTransferParams,
                        fail \in AssembleFailures :
          transferLockedAssemble(lockedInputs, transfers, fail))

SpecAssemble == Init /\ [][AssembleNext]_vars

(***************************************************************************)
(* C36: a scan that is not a full scan sends only reliable messages above  *)
(* lastDrainHWM; a scan is full when lastDrainHWM is nil (the first pass)  *)
(* or when reliableMessageResend has passed since the last full scan, it   *)
(* walks the unacked messages in ascending sequence, and it sends one at   *)
(* or below lastDrainHWM again only if it is reliableMessageResend old;    *)
(* lastDrainHWM moves only when a scan completes without error, to the     *)
(* highest sequence that scan walked.                                      *)
(***************************************************************************)
inScan == sender.pc \in {"query", "send"}

\* the sequence after which the next page of the scan is queried
scanLower == IF sender.lastPageEnd # NoSeq THEN sender.lastPageEnd
             ELSE IF ~sender.fullScan THEN lastDrainHWM ELSE NoSeq

lastOf(list, default) == IF list = <<>> THEN default ELSE list[Len(list)]

\* the highest sequence walked by the scan that completes in this step
walkedEnd ==
    IF sender.pc = "send" THEN lastOf(sender.page, sender.lastPageEnd)
    ELSE lastOf(unackedAfter(scanLower), sender.lastPageEnd)

\* the sender puts reliable message m on the transport in this step
sends(m) == sender.pc = "send" /\ wire' = m

\* C36, the pages: ascending, above the page before, and without a gap
C36_PageWalk ==
    sender.pc = "send" =>
        /\ \A i, j \in DOMAIN sender.page : i < j => sender.page[i] < sender.page[j]
        /\ \A i \in DOMAIN sender.page : sender.page[i] > scanLower
        /\ \A m \in MsgSeqs :
              (reliableMsgs[m].created /\ ~reliableMsgs[m].acked
                 /\ m > scanLower /\ m <= lastOf(sender.page, NoSeq))
                  => m \in Range(sender.page)
        /\ ~sender.fullScan => lastDrainHWM # NoSeq
        /\ sender.fullScan /\ sender.lastPageEnd = NoSeq => scanLower = NoSeq

\* C36, the steps: what is sent, when a scan is full, and when lastDrainHWM moves
C36_ScanSteps ==
    [][ /\ \A m \in MsgSeqs :
              sends(m) =>
                  /\ ~sender.fullScan => m > lastDrainHWM
                  /\ (sender.fullScan /\ lastDrainHWM # NoSeq /\ m <= lastDrainHWM)
                        => reliableMsgs[m].age >= ReliableMessageResend
                  /\ m > sender.lastPageEnd
        /\ (sender.pc = "scan" /\ sender'.pc = "query" /\ sender'.fullScan)
              => (lastDrainHWM = NoSeq \/ lastFullScan >= ReliableMessageResend)
        /\ (sender.pc = "scan" /\ sender'.pc = "query" /\ ~sender'.fullScan)
              => (lastDrainHWM # NoSeq /\ lastFullScan < ReliableMessageResend)
        /\ lastDrainHWM' # lastDrainHWM
              => /\ inScan
                 /\ sender'.pc = "scanned"
                 /\ lastDrainHWM' = walkedEnd
      ]_vars

\* C36: the scan walks and sends as stated and lastDrainHWM moves only when a
\* scan completes, to the highest sequence it walked
C36_ScanAndHWM == []C36_PageWalk /\ C36_ScanSteps

\* a full scan sent again a message at or below the high water mark
C36_Witness ==
    /\ sender.pc = "send"
    /\ sender.fullScan
    /\ lastDrainHWM # NoSeq
    /\ \E m \in Range(sender.msgsToSend) : m <= lastDrainHWM
    /\ \E m \in MsgSeqs : m > lastDrainHWM /\ reliableMsgs[m].created

(***************************************************************************)
(* A context that is given upserts and locks that are refused: a create    *)
(* lock or a createdBy with the zero transaction id, a create lock on a    *)
(* state that is not in the creating map.                                  *)
(***************************************************************************)
ErrorUpserts == [id : {1, 2}, createdBy : {<<>>, <<1>>, <<ZeroTx>>}]
ErrorLocks == [type : {"create", "spend"}, tx : {1, ZeroTx}, state : {1, 2}]
ErrorLockLists == UNION {[1..n -> ErrorLocks] : n \in 1..2}

dcFrame == UNCHANGED <<ssVars, peerVars, txVars, tmVars, rxVars, ifVars, subVars, rcVars, zetoVars, muVars>>

ErrorsNext ==
    \/ dcFrame /\ (\E u \in ErrorUpserts : UpsertStates(<<u>>))
    \/ dcFrame /\ (\E locks \in ErrorLockLists : AddStateLocks(locks))
    \/ dcFrame /\ (\E t \in TxIds : ClearTransactions({t}))
    \/ dcFrame /\ (\E cancelled \in BOOLEAN : Reset(cancelled))

SpecErrors == Init /\ [][ErrorsNext]_vars

(***************************************************************************)
(* C37: an UpsertStates or AddStateLocks call that returns an error leaves *)
(* the unflushed overlay, the creating map and the lock list of the        *)
(* context exactly as they were before the call.                           *)
(***************************************************************************)
C37_ErrorChangesNothing ==
    [][ (ret'.op \in {"UpsertStates", "AddStateLocks"} /\ ret'.err # "none")
            => /\ unFlushed'.states = unFlushed.states
               /\ creatingStates' = creatingStates
               /\ txLocks' = txLocks
      ]_vars

(***************************************************************************)
(* The callers of a domain context, the lock and the flushes.              *)
(***************************************************************************)
muFrame == UNCHANGED <<peerVars, txVars, tmVars, rxVars, ifVars, subVars, rcVars, zetoVars>>

MutexNext ==
    \/ muFrame /\ (\E k \in Callers, op \in DCOps : dcCall(k, op))
    \/ muFrame /\ (\E k \in Callers : stateLockLock(k))
    \/ muFrame /\ (\E k \in Callers : lockedInitiateFlush(k))
    \/ muFrame /\ (\E k \in Callers : lockedReset(k))
    \/ muFrame /\ (\E k \in Callers : lockedClearTransactions(k))
    \/ muFrame /\ (\E k \in Callers : lockedUpsertStates(k))
    \/ muFrame /\ (\E k \in Callers : lockedStateLocksByTransaction(k))
    \/ muFrame /\ (\E c \in FlushSlots, ok \in BOOLEAN : unlockedDoFlush(c, ok))
    \/ muFrame /\ (\E c \in FlushSlots : unlockedDoFlushCallback(c))

\* what a caller does next once it is past dc.stateLock.Lock()
callerStep(k) ==
    \/ lockedInitiateFlush(k)
    \/ lockedReset(k)
    \/ lockedClearTransactions(k)
    \/ lockedUpsertStates(k)
    \/ lockedStateLocksByTransaction(k)

\* what the doFlush goroutine of a slot does next
flushStep(c) ==
    \/ \E ok \in BOOLEAN : unlockedDoFlush(c, ok)
    \/ unlockedDoFlushCallback(c)

\* a caller that holds the lock runs, a caller that waits for the lock gets it
\* (sync.Mutex hands the lock to a waiter that starves), a goroutine that was
\* started runs, and the writer answers every flush
MutexFairness ==
    /\ \A k \in Callers :
          /\ SF_vars(muFrame /\ stateLockLock(k))
          /\ WF_vars(muFrame /\ callerStep(k))
    /\ \A c \in FlushSlots : WF_vars(muFrame /\ flushStep(c))

SpecMutexFair == Init /\ [][MutexNext]_vars /\ MutexFairness

(***************************************************************************)
(* Callers that flush a context and write to it, and whose ctx may be      *)
(* cancelled while they are inside the call.                               *)
(***************************************************************************)
CancelOps == {"InitiateFlush", "UpsertStates"}

CancelNext ==
    \/ muFrame /\ (\E k \in Callers, op \in CancelOps : dcCall(k, op))
    \/ muFrame /\ (\E k \in Callers : stateLockLock(k))
    \/ muFrame /\ (\E k \in Callers : ctxCancel(k))
    \/ muFrame /\ (\E k \in Callers : lockedInitiateFlush(k))
    \/ muFrame /\ (\E k \in Callers : lockedUpsertStates(k))
    \/ muFrame /\ (\E c \in FlushSlots, ok \in BOOLEAN : unlockedDoFlush(c, ok))
    \/ muFrame /\ (\E c \in FlushSlots : unlockedDoFlushCallback(c))

SpecCancel == Init /\ [][CancelNext]_vars

(***************************************************************************)
(* C35: when the ctx of the caller is cancelled while InitiateFlush waits  *)
(* for an earlier flush of the context, InitiateFlush returns the          *)
(* cancelled error and releases dc.stateLock; it starts no flush, its      *)
(* callback is never invoked (no goroutine is started for it), and the     *)
(* unflushed and the flushing write operations are left as they were.      *)
(***************************************************************************)
waitingForFlush(k) == held(k, "InitiateFlush") /\ flushing # 0 /\ ~Flushed(flushing)

\* C35: the only return of an InitiateFlush that waits for the earlier flush is
\* the cancelled one, with the lock released and nothing started or changed
C35_CancelledWhileWaiting ==
    [][ \A k \in Callers :
            (waitingForFlush(k) /\ dcCalls'[k].pc = "idle")
                => /\ dcCalls[k].done
                   /\ ret'.op = "InitiateFlush"
                   /\ ret'.err = "cancelled"
                   /\ stateLock' = 0
                   /\ pendingCalls' = pendingCalls
                   /\ UNCHANGED <<unFlushed, flushing, flushCalls, overlay>>
      ]_vars

\* a cancelled InitiateFlush has returned while the earlier flush is still in
\* progress and writes are waiting in the unflushed operation
C35_Witness ==
    /\ ret.op = "InitiateFlush"
    /\ ret.err = "cancelled"
    /\ flushing # 0
    /\ ~Flushed(flushing)
    /\ ~unFlushed.nil
    /\ stateLock = 0

(***************************************************************************)
(* C38: every call of InitiateFlush, Reset, ClearTransactions, of a query  *)
(* and of a mutation of the overlay returns in the end, when no ctx is     *)
(* cancelled and the writer completes every flush: no interleaving of the  *)
(* calls with the flush goroutine and its callback blocks on dc.stateLock. *)
(***************************************************************************)
C38_CallsReturn ==
    \A k \in Callers : (dcCalls[k].pc # "idle") ~> (dcCalls[k].pc = "idle")

\* InitiateFlush holds the lock and waits for the flush in progress while the
\* other caller waits for the lock
C38_Witness ==
    \E k, j \in Callers :
        /\ held(k, "InitiateFlush")
        /\ flushing # 0 /\ ~Flushed(flushing)
        /\ dcCalls[j].pc = "lock"

(***************************************************************************)
(* C34: when the coins of the sender total less than the requested amount  *)
(* and there are fewer than MAX_INPUT_COUNT of them, prepareInputs fails   *)
(* with "insufficient funds (available=<sum of the coins found>)", which   *)
(* is available=0 when the sender has no coins, and returns no coins and   *)
(* no state refs, so no output states are made from them.                  *)
(***************************************************************************)
storeTotal == SumSeq([i \in DOMAIN coinStore |-> coinStore[i].amount])

shortOfFunds ==
    /\ selection.op = "prepareInputs"
    /\ selection.queryOk /\ selection.coinsOk
    /\ Len(coinStore) < MAX_INPUT_COUNT
    /\ storeTotal < selection.expected

\* C34: short of funds with fewer than MAX_INPUT_COUNT coins, prepareInputs
\* returns insufficient funds with the sum of the coins and selects nothing
C34_InsufficientFunds ==
    shortOfFunds =>
        /\ selection.res.err = "insufficient funds"
        /\ selection.res.available = storeTotal
        /\ coinStore = <<>> => selection.res.available = 0
        /\ selection.res.coins = <<>>
        /\ selection.res.stateRefs = <<>>

C34_Witness ==
    /\ shortOfFunds
    /\ Len(coinStore) = MAX_INPUT_COUNT - 1
    /\ selection.res.err = "insufficient funds"
    /\ selection.res.available = storeTotal
    /\ storeTotal > 0

(***************************************************************************)
(* C39: when prepareInputs succeeds, the total returned is the sum of the  *)
(* amounts of the coins returned and is at least the requested sum, the    *)
(* remainder returned is that total minus the requested sum and is not     *)
(* negative, there is one state ref for each coin, and at most             *)
(* MAX_INPUT_COUNT coins are selected.                                     *)
(***************************************************************************)
selected == selection.op = "prepareInputs" /\ selection.res.err = "none"

\* C39: the total, the remainder, the coins and the state refs that a
\* successful prepareInputs returns agree with each other and with the request
C39_SelectionTotals ==
    selected =>
        /\ selection.res.total = SumSeq(selection.res.coins)
        /\ selection.res.total >= selection.expected
        /\ selection.res.remainder = selection.res.total - selection.expected
        /\ selection.res.remainder >= 0
        /\ Len(selection.res.stateRefs) = Len(selection.res.coins)
        /\ \A i \in DOMAIN selection.res.coins :
              selection.res.coins[i] = coinStore[selection.res.stateRefs[i]].amount
        /\ Len(selection.res.coins) <= MAX_INPUT_COUNT

(***************************************************************************)
(* C40: Assemble of the lock and of the transferLocked handler conserves   *)
(* value: the amounts of the output coins (the transfer or locked outputs  *)
(* and the remainder returned to the sender) add up to the amounts of the  *)
(* input coins, and there is a remainder output exactly when the inputs    *)
(* exceed the requested amount.                                            *)
(***************************************************************************)
outputAmounts == [i \in DOMAIN assembled.outputs |-> assembled.outputs[i].amount]

hasRemainderOutput == \E i \in DOMAIN assembled.outputs : assembled.outputs[i].kind = "remainder"

\* C40: the outputs of a successful Assemble add up to its inputs, with a
\* remainder output exactly when the inputs exceed the requested amount
C40_ValueConserved ==
    (assembled.handler # "none" /\ assembled.err = "none") =>
        /\ SumSeq(outputAmounts) = SumSeq(assembled.inputs)
        /\ hasRemainderOutput <=> SumSeq(assembled.inputs) > assembled.requested

====
